---- MODULE Spec2Model ----
(***************************************************************************)
(* The ownership tree of vrv::Object (src/src/object.cpp): parent          *)
(* back-references, ordered child sequences, dirty flags, reference        *)
(* objects, destruction, and the Process traversal.                        *)
(*                                                                         *)
(* Objects are the numbers 1..NumNodes; NULL is the null pointer.  Child   *)
(* indices are 0-based as in the C++ code (position idx is element idx+1   *)
(* of the TLA+ sequence).  assert() is modelled as compiled in: a failed   *)
(* assertion ends the process (fault = "assert").                          *)
(***************************************************************************)
EXTENDS Integers, Sequences, FiniteSets, TLC

\* ------------------------------------------------------------------ bounds
NumNodes == 3
MaxChildren == 3
MaxCalls == 3
MaxLeanCalls == 4
MaxScore == 5

\* ------------------------------------------------------------- constants
NULL == 0

\* The width of a staff line of the document at the staff size 100.
LineWidth == 4

Nodes == 1..NumNodes

\* The classes of the objects of the pool (GetClassName).  "Object" is the
\* base class, whose IsSupportedChild is the one of object.cpp; the others
\* override it.
ClassNames == <<"Section", "Staff", "Object">>

GetClassName(n) == ClassNames[((n - 1) % Len(ClassNames)) + 1]

VARIABLES
    parent,      \* m_parent of every object (NULL or an object)
    children,    \* m_children of every object, a sequence of objects
    alive,       \* the objects that are constructed and not destroyed
    isRef,       \* m_isReferenceObject
    isModified,  \* m_isModified
    fault,       \* "none" while the process runs, else how it ended
    budget,      \* the number of calls the run may still make
    scn,         \* progress of a relinquish / set-parent / insert-at-0 sequence
    call,        \* the last call: operation, receiver, arguments, result
    editorial,   \* the objects that are editorial elements (IsEditorialElement)
    hidden,      \* the objects whose m_visibility is Hidden
    functor,     \* the functor of the traversal: settings, callbacks, code
    log,         \* the callbacks the last traversal invoked, in order
    list,        \* m_list of the list interface of every object that has built it
    listable,    \* the objects the FilterList of the list interfaces keeps
    ctors,       \* s_ctorsRegistry of the object factory, a map from names
    classIds,    \* s_classIdsRegistry of the object factory, a map from names
    builtBy,     \* the name and the constructor that built each object Create returned
    latest,      \* the constructor last handed to Register under each name
    attrs,       \* the class and the members of every object of a score
    params,      \* CalcBBoxOverflowsParams: m_staffAlignment
    alignments,  \* the StaffAlignment of every staff of a score
    passLog,     \* the calls of CalcBBoxOverflows the last pass made, in order
    currentScore, \* the score that is the current one of the document, or NULL
    classOf,     \* what the class of every object overrides: Clone, CopyChildren
    id,          \* m_id of every object
    rng          \* s_randomGenerator: the numbers it gives next, in order

treeVars == <<parent, children, alive, isRef, isModified>>
travVars == <<editorial, hidden, functor, log>>
listVars == <<list, listable>>
factoryVars == <<ctors, classIds, builtBy, latest>>
layoutVars == <<attrs, params, alignments, passLog, currentScore>>
cloneVars == <<classOf, id, rng>>
vars == <<parent, children, alive, isRef, isModified, fault, budget, scn, call,
          editorial, hidden, functor, log, list, listable, ctors, classIds, builtBy, latest,
          attrs, params, alignments, passLog, currentScore, classOf, id, rng>>

\* --------------------------------------------------------------- helpers

\* The state of the heap as one value, threaded through a handler.
Cur ==
    [parent |-> parent, children |-> children, alive |-> alive, isRef |-> isRef,
     isModified |-> isModified, list |-> list, fault |-> "none", ub |-> FALSE,
     status |-> "ok", ret |-> NULL, sup |-> "not_called"]

Fail(st, kind) == IF st.fault = "none" THEN [st EXCEPT !.fault = kind] ELSE st

\* A dereference of object n: undefined when n has been destroyed.
Deref(st, n) == IF n \in st.alive THEN st ELSE [st EXCEPT !.ub = TRUE]

Size(st, n) == Len(st.children[n])

InsertAt(seq, idx, x) == SubSeq(seq, 1, idx) \o <<x>> \o SubSeq(seq, idx + 1, Len(seq))

EraseAt(seq, idx) == SubSeq(seq, 1, idx) \o SubSeq(seq, idx + 2, Len(seq))

Listed(seq) == {seq[i] : i \in 1..Len(seq)}

Count(seq, x) == Cardinality({i \in 1..Len(seq) : seq[i] = x})

\* ------------------------------------------------------------ primitives

\* Mutant of SetParent: the assertion is missing.
SetParent_NoAssert(st, n, p) == [Deref(st, n) EXCEPT !.parent[n] = p]

\* Object::SetParent: assert(!m_parent); m_parent = parent.
SetParent(st, n, p) ==
    IF st.parent[n] # NULL THEN Fail(st, "assert")
    ELSE [Deref(st, n) EXCEPT !.parent[n] = p]

\* Object::ResetParent: m_parent = NULL.
ResetParent(st, n) == [Deref(st, n) EXCEPT !.parent[n] = NULL]

\* Object::GetChildIndex: the first position of child in m_children, or -1.
GetChildIndex(st, self, child) ==
    IF child \in Listed(st.children[self])
    THEN (CHOOSE i \in 1..Size(st, self) :
            /\ st.children[self][i] = child
            /\ \A j \in 1..(i - 1) : st.children[self][j] # child) - 1
    ELSE -1

\* Object::Modify(true): recursion into m_parent first, then the flag is set.
\* A cycle of parent back-references makes the recursion unbounded.
RECURSIVE ModifyUp(_, _, _)
RECURSIVE ModifyUp_StopAtDirty(_, _, _)
\* Modify that does not go on above a parent that is modified already.
ModifyUp_StopAtDirty(st, n, seen) ==
    IF n \in seen THEN Fail(st, "stack_overflow")
    ELSE LET here == Deref(st, n)
             up == IF here.parent[n] # NULL /\ ~here.isModified[here.parent[n]]
                   THEN ModifyUp_StopAtDirty(here, here.parent[n], seen \cup {n})
                   ELSE here
         IN  IF up.fault # "none" THEN up ELSE [up EXCEPT !.isModified[n] = TRUE]

\* Modify that sets the flag of the object alone.
ModifyUp_SelfOnly(st, n, seen) == [Deref(st, n) EXCEPT !.isModified[n] = TRUE]

ModifyUp(st, n, seen) ==
    IF n \in seen THEN Fail(st, "stack_overflow")
    ELSE LET here == Deref(st, n)
             up == IF here.parent[n] # NULL
                   THEN ModifyUp(here, here.parent[n], seen \cup {n})
                   ELSE here
         IN  IF up.fault # "none" THEN up ELSE [up EXCEPT !.isModified[n] = TRUE]

Modify(st, n) == ModifyUp(st, n, {})

\* Object::IsSupportedChild of the base class returns false; a subclass
\* overrides it, and `over` is the answer of that override.
IsSupportedChild(self, child, over) ==
    IF GetClassName(self) = "Object" THEN FALSE ELSE over

\* Object::InsertChild (idx >= 0).
InsertChild(st, self, element, idx) ==
    IF st.parent[element] # self THEN Fail(Deref(st, element), "assert")
    ELSE IF idx >= Size(st, self)
    THEN [Deref(st, element) EXCEPT !.children[self] = Append(@, element)]
    ELSE [Deref(st, element) EXCEPT !.children[self] = InsertAt(@, idx, element)]

\* Mutant of Relinquish: the entry is erased, as DetachChild does.
Relinquish_Erasing(st, self, idx) ==
    IF idx >= Size(st, self) THEN [st EXCEPT !.status = "null", !.ret = NULL]
    ELSE IF idx < 0 THEN Fail(st, "out_of_range")
    ELSE LET child == st.children[self][idx + 1]
         IN  [ResetParent(st, child) EXCEPT
                 !.children[self] = EraseAt(@, idx), !.ret = child]

\* Object::Relinquish.
Relinquish(st, self, idx) ==
    IF idx >= Size(st, self) THEN [st EXCEPT !.status = "null", !.ret = NULL]
    ELSE IF idx < 0 THEN Fail(st, "out_of_range")
    ELSE LET child == st.children[self][idx + 1]
         IN  [ResetParent(st, child) EXCEPT !.ret = child]

\* Mutant of DetachChild: the child's parent is not reset.
DetachChild_NoReset(st, self, idx) ==
    IF idx >= Size(st, self) THEN [st EXCEPT !.status = "null", !.ret = NULL]
    ELSE IF idx < 0 THEN Fail(st, "out_of_range")
    ELSE LET child == st.children[self][idx + 1]
         IN  [Deref(st, child) EXCEPT !.children[self] = EraseAt(@, idx), !.ret = child]

\* Mutant of DetachChild: the last entry is erased instead of the one at idx.
DetachChild_EraseLast(st, self, idx) ==
    IF idx >= Size(st, self) THEN [st EXCEPT !.status = "null", !.ret = NULL]
    ELSE IF idx < 0 THEN Fail(st, "out_of_range")
    ELSE LET child == st.children[self][idx + 1]
         IN  [ResetParent(st, child) EXCEPT
                 !.children[self] = EraseAt(@, Size(st, self) - 1), !.ret = child]

\* Mutant of DetachChild: the bound test is idx > size, so idx = size reaches
\* vector::at, which throws.
DetachChild_OffByOne(st, self, idx) ==
    IF idx > Size(st, self) THEN [st EXCEPT !.status = "null", !.ret = NULL]
    ELSE IF idx < 0 \/ idx = Size(st, self) THEN Fail(st, "out_of_range")
    ELSE LET child == st.children[self][idx + 1]
         IN  [ResetParent(st, child) EXCEPT
                 !.children[self] = EraseAt(@, idx), !.ret = child]

\* Object::DetachChild.
DetachChild(st, self, idx) ==
    IF idx >= Size(st, self) THEN [st EXCEPT !.status = "null", !.ret = NULL]
    ELSE IF idx < 0 THEN Fail(st, "out_of_range")
    ELSE LET child == st.children[self][idx + 1]
         IN  [ResetParent(st, child) EXCEPT
                 !.children[self] = EraseAt(@, idx), !.ret = child]

\* Mutant of AddChild: the return after the rejection is missing.
AddChild_IgnoreRejection(st, self, child, over) ==
    LET exempt == GetClassName(child) = "Staff" /\ GetClassName(self) = "Section"
        asked == IF exempt THEN st
                 ELSE [st EXCEPT !.sup = IF IsSupportedChild(self, child, over)
                                         THEN "true" ELSE "false"]
        set == SetParent(asked, child, self)
    IN  IF set.fault # "none" THEN set
        ELSE Modify([set EXCEPT !.children[self] = Append(@, child)], self)

\* Mutant of AddChild: Modify runs before the child is checked.
AddChild_ModifyFirst(st, self, child, over) ==
    LET exempt == GetClassName(child) = "Staff" /\ GetClassName(self) = "Section"
        marked == Modify(st, self)
        asked == IF exempt THEN marked
                 ELSE [marked EXCEPT !.sup = IF IsSupportedChild(self, child, over)
                                             THEN "true" ELSE "false"]
    IN  IF asked.fault # "none" THEN asked
        ELSE IF asked.sup = "false" THEN [asked EXCEPT !.status = "rejected"]
        ELSE LET set == SetParent(asked, child, self)
             IN  IF set.fault # "none" THEN set
                 ELSE [set EXCEPT !.children[self] = Append(@, child)]

\* Object::AddChild.  sup records whether IsSupportedChild was consulted
\* and what it answered.
AddChild(st, self, child, over) ==
    LET exempt == GetClassName(child) = "Staff" /\ GetClassName(self) = "Section"
        asked == IF exempt THEN st
                 ELSE [st EXCEPT !.sup = IF IsSupportedChild(self, child, over)
                                         THEN "true" ELSE "false"]
    IN  IF asked.sup = "false" THEN [asked EXCEPT !.status = "rejected"]
        ELSE LET set == SetParent(asked, child, self)
             IN  IF set.fault # "none" THEN set
                 ELSE Modify([set EXCEPT !.children[self] = Append(@, child)], self)

\* Object::InsertBefore (after = 0) and Object::InsertAfter (after = 1).
InsertBeside(st, self, child, newChild, after) ==
    IF GetChildIndex(st, self, child) = -1 THEN Fail(st, "assert")
    ELSE IF GetChildIndex(st, self, newChild) # -1 THEN Fail(st, "assert")
    ELSE LET idx == GetChildIndex(st, self, child)
             set == SetParent(st, newChild, self)
         IN  IF set.fault # "none" THEN set
             ELSE Modify(InsertChild(set, self, newChild, idx + after), self)

InsertBefore(st, self, child, newChild) == InsertBeside(st, self, child, newChild, 0)

InsertAfter(st, self, child, newChild) == InsertBeside(st, self, child, newChild, 1)

\* Object::ReplaceChild.
ReplaceChild(st, self, currentChild, replacingChild) ==
    IF GetChildIndex(st, self, currentChild) = -1 THEN Fail(st, "assert")
    ELSE IF GetChildIndex(st, self, replacingChild) # -1 THEN Fail(st, "assert")
    ELSE LET idx == GetChildIndex(st, self, currentChild)
             reset == ResetParent(st, currentChild)
             put == [reset EXCEPT !.children[self][idx + 1] = replacingChild]
             set == SetParent(put, replacingChild, self)
         IN  IF set.fault # "none" THEN set ELSE Modify(set, self)

\* The loop of Object::MoveChildrenFrom for source # this, from position i
\* of the source on: Relinquish(i), SetParent(this), then InsertChild(idx)
\* with idx++ or push_back when idx is -1.
RECURSIVE MoveLoop(_, _, _, _, _)

\* Mutant of MoveLoop: idx is not advanced after an insertion.
RECURSIVE MoveLoop_SameIdx(_, _, _, _, _)
MoveLoop_SameIdx(st, self, sourceParent, i, idx) ==
    IF i >= Size(st, sourceParent) \/ st.fault # "none" THEN st
    ELSE LET given == Relinquish(st, sourceParent, i)
             child == given.ret
             set == SetParent(given, child, self)
             put == IF set.fault # "none" THEN set
                    ELSE IF idx # -1 THEN InsertChild(set, self, child, idx)
                    ELSE [set EXCEPT !.children[self] = Append(@, child)]
         IN  MoveLoop_SameIdx(put, self, sourceParent, i + 1, idx)

MoveLoop(st, self, sourceParent, i, idx) ==
    IF i >= Size(st, sourceParent) \/ st.fault # "none" THEN st
    ELSE LET given == Relinquish(st, sourceParent, i)
             child == given.ret
             set == SetParent(given, child, self)
             put == IF set.fault # "none" THEN set
                    ELSE IF idx # -1 THEN InsertChild(set, self, child, idx)
                    ELSE [set EXCEPT !.children[self] = Append(@, child)]
         IN  MoveLoop(put, self, sourceParent, i + 1, IF idx # -1 THEN idx + 1 ELSE idx)

\* Object::MoveChildrenFrom.  Both assert("...") of the code test a string
\* literal, which is never null: they cannot fail.  With source = this and a
\* child to move, every pass adds an element to the sequence the loop runs
\* over, so the loop has no end.
MoveChildrenFrom(st, self, sourceParent, idx, allowTypeChange) ==
    IF self = sourceParent /\ Size(st, sourceParent) > 0
    THEN Fail(st, "no_termination")
    ELSE [MoveLoop(st, self, sourceParent, 0, idx) EXCEPT !.ret = NULL]

\* Object::GetIdx.
GetIdx(st, self) == GetChildIndex(st, st.parent[self], self)

\* Object::MoveItselfTo.
MoveItselfTo(st, self, targetParent, over) ==
    IF targetParent = NULL \/ st.parent[self] = NULL \/ st.parent[self] = targetParent
    THEN Fail(st, "assert")
    ELSE LET given == Relinquish(Deref(st, st.parent[self]), st.parent[self], GetIdx(st, self))
         IN  IF given.fault # "none" THEN given
             ELSE IF given.ret # self THEN Fail(given, "assert")
             ELSE [AddChild(given, targetParent, self, over) EXCEPT !.ret = NULL]

\* Object::HasDescendant: the children are read in their order; a child that
\* is not the one looked for ends the search with false when deepness is 0,
\* and is searched with deepness - 1 otherwise.
RECURSIVE HasDescendant(_, _, _, _)
HasDescendant(st, self, child, deepness) ==
    LET Scan[i \in 1..(Size(st, self) + 1)] ==
            IF i > Size(st, self) THEN FALSE
            ELSE IF child = st.children[self][i] THEN TRUE
            ELSE IF deepness = 0 THEN FALSE
            ELSE IF HasDescendant(st, st.children[self][i], child, deepness - 1) THEN TRUE
            ELSE Scan[i + 1]
    IN  Scan[1]

\* Mutant of IsPreOrdered: the positions under the common parent are compared
\* the other way round.
IsPreOrdered_Reversed(st, left, right) ==
    LET Line(n) ==
            LET up[k \in 0..Cardinality(DOMAIN st.parent)] ==
                    IF k = 0 THEN n
                    ELSE IF up[k - 1] = NULL THEN NULL ELSE st.parent[up[k - 1]]
                len == Cardinality({k \in DOMAIN up : up[k] # NULL})
            IN  [k \in 1..len |-> up[k - 1]]
        ancestorsLeft == Line(left)
        ancestorsRight == Line(right)
        Rev(seq, j) == seq[Len(seq) - j + 1]
        differ == {j \in 1..Len(ancestorsLeft) :
                      j > Len(ancestorsRight) \/ Rev(ancestorsLeft, j) # Rev(ancestorsRight, j)}
    IN  IF right \in Listed(ancestorsLeft) THEN [st EXCEPT !.status = "false"]
        ELSE IF left \in Listed(ancestorsRight) THEN [st EXCEPT !.status = "true"]
        ELSE IF differ = {} \/ (\A j \in differ : j > Len(ancestorsRight))
        THEN [st EXCEPT !.ub = TRUE]
        ELSE LET j == CHOOSE i \in differ : \A other \in differ : i <= other
                 commonParent == st.parent[Rev(ancestorsLeft, j)]
             IN  IF commonParent # NULL
                 THEN IF GetChildIndex(st, commonParent, Rev(ancestorsLeft, j))
                             > GetChildIndex(st, commonParent, Rev(ancestorsRight, j))
                      THEN [st EXCEPT !.status = "true"]
                      ELSE [st EXCEPT !.status = "false"]
                 ELSE [st EXCEPT !.status = "true"]

\* Object::IsPreOrdered.  Line(n) is GetAncestors of n with n pushed to the
\* front; std::mismatch walks both lines from their far ends and reads past
\* the end of a line that has no mismatch with the other.
IsPreOrdered(st, left, right) ==
    LET Line(n) ==
            LET up[k \in 0..Cardinality(DOMAIN st.parent)] ==
                    IF k = 0 THEN n
                    ELSE IF up[k - 1] = NULL THEN NULL ELSE st.parent[up[k - 1]]
                len == Cardinality({k \in DOMAIN up : up[k] # NULL})
            IN  [k \in 1..len |-> up[k - 1]]
        ancestorsLeft == Line(left)
        ancestorsRight == Line(right)
        Rev(seq, j) == seq[Len(seq) - j + 1]
        differ == {j \in 1..Len(ancestorsLeft) :
                      j > Len(ancestorsRight) \/ Rev(ancestorsLeft, j) # Rev(ancestorsRight, j)}
    IN  IF right \in Listed(ancestorsLeft) THEN [st EXCEPT !.status = "false"]
        ELSE IF left \in Listed(ancestorsRight) THEN [st EXCEPT !.status = "true"]
        ELSE IF differ = {} \/ (\A j \in differ : j > Len(ancestorsRight))
        THEN [st EXCEPT !.ub = TRUE]
        ELSE LET j == CHOOSE i \in differ : \A other \in differ : i <= other
                 commonParent == st.parent[Rev(ancestorsLeft, j)]
             IN  IF commonParent # NULL
                 THEN IF GetChildIndex(st, commonParent, Rev(ancestorsLeft, j))
                             < GetChildIndex(st, commonParent, Rev(ancestorsRight, j))
                      THEN [st EXCEPT !.status = "true"]
                      ELSE [st EXCEPT !.status = "false"]
                 ELSE [st EXCEPT !.status = "true"]

\* ----------------------------------------------------------- destruction

\* delete n: Object::~Object runs ClearChildren, then the object is gone.
\* Object::ClearChildren: a reference object only empties its sequence; any
\* other object deletes the entries whose parent it is (each entry is
\* dereferenced to read its parent) and then empties its sequence.
RECURSIVE Delete(_, _)
RECURSIVE ClearLoop(_, _, _)
ClearLoop(st, self, i) ==
    IF i > Size(st, self) THEN st
    ELSE LET entry == st.children[self][i]
             read == Deref(st, entry)
         IN  IF entry \in st.alive /\ st.parent[entry] = self
             THEN ClearLoop(Delete(read, entry), self, i + 1)
             ELSE ClearLoop(read, self, i + 1)

ClearChildren(st, self) ==
    IF st.isRef[self] THEN [st EXCEPT !.children[self] = <<>>]
    ELSE [ClearLoop(st, self, 1) EXCEPT !.children[self] = <<>>]

Delete(st, n) ==
    IF n \notin st.alive THEN [st EXCEPT !.ub = TRUE]
    ELSE ClearChildren([st EXCEPT !.alive = @ \ {n}], n)

\* Object::DeleteChild.
DeleteChild(st, self, child) ==
    IF GetChildIndex(st, self, child) = -1 THEN Fail(st, "assert")
    ELSE LET erased == [st EXCEPT
                          !.children[self] = EraseAt(@, GetChildIndex(st, self, child))]
             freed == IF st.isRef[self] THEN erased ELSE Delete(erased, child)
         IN  [Modify(freed, self) EXCEPT !.ret = NULL]

\* Object::DeleteChildrenByComparison, the comparison matching the objects
\* of one class; i is the position of the iterator, count the erased entries.
RECURSIVE DeleteLoop(_, _, _, _, _)
DeleteLoop(st, self, className, i, count) ==
    IF i > Size(st, self)
    THEN IF count > 0 THEN Modify(st, self) ELSE st
    ELSE LET entry == st.children[self][i]
             read == Deref(st, entry)
         IN  IF GetClassName(entry) = className
             THEN LET freed == IF st.isRef[self] THEN read ELSE Delete(read, entry)
                  IN  IF self \notin freed.alive
                      THEN [freed EXCEPT !.ub = TRUE]  \* this was destroyed on the way
                      ELSE DeleteLoop([freed EXCEPT !.children[self] = EraseAt(@, i - 1)],
                                      self, className, i, count + 1)
             ELSE DeleteLoop(read, self, className, i + 1, count)

DeleteChildrenByComparison(st, self, className) == DeleteLoop(st, self, className, 1, 0)

\* Mutant of ClearRelinquishedChildren: the entries kept end in reverse order.
ClearRelinquishedChildren_Reversed(st, self) ==
    LET kept == {i \in 1..Size(st, self) : st.parent[st.children[self][i]] = self}
        F[i \in 0..Size(st, self)] ==
            IF i = 0 THEN <<>>
            ELSE IF i \in kept THEN <<st.children[self][i]>> \o F[i - 1] ELSE F[i - 1]
        read == IF Listed(st.children[self]) \subseteq st.alive THEN st
                ELSE [st EXCEPT !.ub = TRUE]
    IN  [read EXCEPT !.children[self] = F[Size(st, self)]]

\* Object::ClearRelinquishedChildren.
ClearRelinquishedChildren(st, self) ==
    LET kept == {i \in 1..Size(st, self) : st.parent[st.children[self][i]] = self}
        F[i \in 0..Size(st, self)] ==
            IF i = 0 THEN <<>>
            ELSE IF i \in kept THEN Append(F[i - 1], st.children[self][i]) ELSE F[i - 1]
        read == IF Listed(st.children[self]) \subseteq st.alive THEN st
                ELSE [st EXCEPT !.ub = TRUE]
    IN  [read EXCEPT !.children[self] = F[Size(st, self)]]

\* Object::SetAsReferenceObject.
SetAsReferenceObject(st, self) ==
    IF Size(st, self) # 0 THEN Fail(st, "assert")
    ELSE [st EXCEPT !.isRef[self] = TRUE]

\* -------------------------------------------------------------- traversal

FunctorCodes == {"CONTINUE", "SIBLINGS", "STOP"}

FORWARD == "FORWARD"

BACKWARD == "BACKWARD"

\* A functor as constructed: code CONTINUE, visible objects only.  kind is
\* "Functor" (the member-function functor, with or without an end functor)
\* or "MutableFunctor" (the visitor, with or without the end interface);
\* entry[n] and exit[n] are what the entry and the exit callback return on
\* n; filters.pass holds the objects Filters::Apply accepts.
NewFunctor(kind, direction, hasEnd, entry, exit) ==
    [kind |-> kind, code |-> "CONTINUE", visibleOnly |-> TRUE, direction |-> direction,
     filters |-> [on |-> FALSE, pass |-> {}], hasEnd |-> hasEnd,
     entry |-> entry, exit |-> exit]

\* The callbacks that return code on every object.
Always(code) == [n \in Nodes |-> code]

NoFunctor == NewFunctor("Functor", FORWARD, FALSE, Always("CONTINUE"), Always("CONTINUE"))

IsEditorialElement(n) == n \in editorial

\* SkipChildren that does not look at the visibility filter.
SkipChildren_IgnoreFlag(n, visibleOnly) == n \in hidden

SkipChildren(n, visibleOnly) == visibleOnly /\ n \in hidden

\* FiltersApply that accepts every object.
FiltersApply_AcceptAll(filters, object) == TRUE

FiltersApply(filters, object) == IF filters.on THEN object \in filters.pass ELSE TRUE

\* The reversed iteration replaced by the forward one.
Reverse_Identity(seq) == seq

Reverse(seq) == [i \in 1..Len(seq) |-> seq[Len(seq) + 1 - i]]

\* The entry callback on n: Functor::Call or Accept followed by SetCode.
\* The log keeps the code the functor had when n was entered (pre) and the
\* current score of the document at the callback.
Accept(t, f, n) ==
    [code |-> f.entry[n],
     log |-> Append(t.log, [ev |-> "visit", node |-> n, code |-> f.entry[n],
                            pre |-> t.code, score |-> t.score]),
     score |-> t.score]

\* The exit callback on n.  The end functor of the member-function functor
\* is another object, which keeps the code to itself; the visitor's code is
\* set to what AcceptEnd returns.
AcceptEnd(t, f, n) ==
    [code |-> IF f.kind = "MutableFunctor" THEN f.exit[n] ELSE t.code,
     log |-> Append(t.log, [ev |-> "end", node |-> n, code |-> f.exit[n],
                            pre |-> t.code, score |-> t.score]),
     score |-> t.score]

\* UpdateDocumentScore that makes a score the current one in either direction.
UpdateDocumentScore_AnyDirection(t, direction, n) ==
    LET Is(o, classId) == o \in DOMAIN attrs /\ attrs[o].classId = classId
    IN
    IF Is(n, "SCORE") THEN [t EXCEPT !.score = n]
    ELSE IF direction = BACKWARD /\ Is(n, "PAGE_MILESTONE_END")
    THEN IF attrs[n].start # NULL /\ Is(attrs[n].start, "SCORE")
         THEN [t EXCEPT !.score = attrs[n].start]
         ELSE t
    ELSE t

\* Object::UpdateDocumentScore on n; Score::SetAsCurrent makes the score the
\* current one of the document.  Is(o, classId) is Object::Is; an object with
\* no class on record is of neither class asked for here.
UpdateDocumentScore(t, direction, n) ==
    LET Is(o, classId) == o \in DOMAIN attrs /\ attrs[o].classId = classId
    IN
    IF direction = FORWARD /\ Is(n, "SCORE") THEN [t EXCEPT !.score = n]
    ELSE IF direction = BACKWARD /\ Is(n, "PAGE_MILESTONE_END")
    THEN IF attrs[n].start # NULL /\ Is(attrs[n].start, "SCORE")
         THEN [t EXCEPT !.score = attrs[n].start]
         ELSE t
    ELSE t

\* Object::Process on n with the code, the log and the current score of t.
RECURSIVE Process(_, _, _, _, _)
RECURSIVE ProcessChildren(_, _, _, _, _)
ProcessChildren(t, f, order, i, deepness) ==
    IF i > Len(order) THEN t
    ELSE ProcessChildren(
             IF FiltersApply(f.filters, order[i])
             THEN Process(t, f, order[i], deepness, FALSE)
             ELSE t,
             f, order, i + 1, deepness)

\* Process that hands the depth on to the children without the decrement.
Process_NoDecrement(t, f, n, deepness, skipFirst) ==
    IF t.code = "STOP" THEN t
    ELSE
        LET t0 == UpdateDocumentScore(t, f.direction, n)
            t1 == IF skipFirst THEN t0 ELSE Accept(t0, f, n)
            d1 == IF IsEditorialElement(n) THEN deepness + 1 ELSE deepness
            order == IF f.direction = BACKWARD THEN Reverse(children[n]) ELSE children[n]
            t2 == IF SkipChildren(n, f.visibleOnly) THEN t1
                  ELSE ProcessChildren(t1, f, order, 1, d1)
        IN  IF t1.code = "SIBLINGS" THEN [t1 EXCEPT !.code = "CONTINUE"]
            ELSE IF d1 = 0 THEN t1
            ELSE IF f.hasEnd /\ ~skipFirst THEN AcceptEnd(t2, f, n)
            ELSE t2

\* Process without the increment of the depth on an editorial element.
Process_NoEditorial(t, f, n, deepness, skipFirst) ==
    IF t.code = "STOP" THEN t
    ELSE
        LET t0 == UpdateDocumentScore(t, f.direction, n)
            t1 == IF skipFirst THEN t0 ELSE Accept(t0, f, n)
            d1 == deepness
            order == IF f.direction = BACKWARD THEN Reverse(children[n]) ELSE children[n]
            t2 == IF SkipChildren(n, f.visibleOnly) THEN t1
                  ELSE ProcessChildren(t1, f, order, 1, d1 - 1)
        IN  IF t1.code = "SIBLINGS" THEN [t1 EXCEPT !.code = "CONTINUE"]
            ELSE IF d1 = 0 THEN t1
            ELSE IF f.hasEnd /\ ~skipFirst THEN AcceptEnd(t2, f, n)
            ELSE t2

\* Process without the reset of the code after SIBLINGS.
Process_KeepSiblings(t, f, n, deepness, skipFirst) ==
    IF t.code = "STOP" THEN t
    ELSE
        LET t0 == UpdateDocumentScore(t, f.direction, n)
            t1 == IF skipFirst THEN t0 ELSE Accept(t0, f, n)
            d1 == IF IsEditorialElement(n) THEN deepness + 1 ELSE deepness
            order == IF f.direction = BACKWARD THEN Reverse(children[n]) ELSE children[n]
            t2 == IF SkipChildren(n, f.visibleOnly) THEN t1
                  ELSE ProcessChildren(t1, f, order, 1, d1 - 1)
        IN  IF t1.code = "SIBLINGS" THEN t1
            ELSE IF d1 = 0 THEN t1
            ELSE IF f.hasEnd /\ ~skipFirst THEN AcceptEnd(t2, f, n)
            ELSE t2

\* Process that makes the exit callback on a start it was told to skip.
Process_EndOnSkipped(t, f, n, deepness, skipFirst) ==
    IF t.code = "STOP" THEN t
    ELSE
        LET t0 == UpdateDocumentScore(t, f.direction, n)
            t1 == IF skipFirst THEN t0 ELSE Accept(t0, f, n)
            d1 == IF IsEditorialElement(n) THEN deepness + 1 ELSE deepness
            order == IF f.direction = BACKWARD THEN Reverse(children[n]) ELSE children[n]
            t2 == IF SkipChildren(n, f.visibleOnly) THEN t1
                  ELSE ProcessChildren(t1, f, order, 1, d1 - 1)
        IN  IF t1.code = "SIBLINGS" THEN [t1 EXCEPT !.code = "CONTINUE"]
            ELSE IF d1 = 0 THEN t1
            ELSE IF f.hasEnd THEN AcceptEnd(t2, f, n)
            ELSE t2

Process(t, f, n, deepness, skipFirst) ==
    IF t.code = "STOP" THEN t
    ELSE
        LET t0 == UpdateDocumentScore(t, f.direction, n)
            t1 == IF skipFirst THEN t0 ELSE Accept(t0, f, n)
            d1 == IF IsEditorialElement(n) THEN deepness + 1 ELSE deepness
            order == IF f.direction = BACKWARD THEN Reverse(children[n]) ELSE children[n]
            t2 == IF SkipChildren(n, f.visibleOnly) THEN t1
                  ELSE ProcessChildren(t1, f, order, 1, d1 - 1)
        IN  IF t1.code = "SIBLINGS" THEN [t1 EXCEPT !.code = "CONTINUE"]
            ELSE IF d1 = 0 THEN t1
            ELSE IF f.hasEnd /\ ~skipFirst THEN AcceptEnd(t2, f, n)
            ELSE t2

\* ----------------------------------------------------------- cached lists

\* The depth Process takes when the caller passes none.
UNLIMITED_DEPTH == -1

\* Object::FillFlatList with the visibility filter of its functor off.
FillFlatList_All(n) ==
    LET f == [NewFunctor("Functor", FORWARD, FALSE, Always("CONTINUE"), Always("CONTINUE"))
                 EXCEPT !.visibleOnly = FALSE]
        t == Process([code |-> "CONTINUE", log |-> <<>>, score |-> currentScore], f, n, UNLIMITED_DEPTH, FALSE)
    IN  [i \in 1..Len(t.log) |-> t.log[i].node]

\* Object::FillFlatList: a functor as its constructor leaves it, whose
\* callback AddLayerElementToFlatList appends the object and returns
\* CONTINUE, processed from n with the parameters Process defaults.
FillFlatList(n) ==
    LET f == NewFunctor("Functor", FORWARD, FALSE, Always("CONTINUE"), Always("CONTINUE"))
        t == Process([code |-> "CONTINUE", log |-> <<>>, score |-> currentScore], f, n, UNLIMITED_DEPTH, FALSE)
    IN  [i \in 1..Len(t.log) |-> t.log[i].node]

\* FilterList of the interface: erases what the subclass does not keep.
FilterList(childList) == SelectSeq(childList, LAMBDA m : m \in listable)

\* The objects the recursion of Process from n comes to: the children of
\* every object it comes to whose children are not skipped.
RECURSIVE Reached(_, _)
Reached(S, visibleOnly) ==
    LET T == S \cup UNION {Listed(children[m]) : m \in {k \in S : ~SkipChildren(k, visibleOnly)}}
    IN  IF T = S THEN S ELSE Reached(T, visibleOnly)

\* The recursion of Process from n comes back to an object it is in: with
\* unlimited depth it does not return.
Loops(n, visibleOnly) ==
    \E m \in Reached({n}, visibleOnly) :
        /\ ~SkipChildren(m, visibleOnly)
        /\ m \in Reached(Listed(children[m]), visibleOnly)

\* ObjectListInterface::ResetList: nothing when the object is not modified;
\* else Modify(false), which clears the flag of the object alone, and the
\* list is filled and filtered again.  The traversal reads the tree of the
\* current state, which ResetList has not changed.
ResetList(st, node) ==
    IF ~st.isModified[node] THEN [st EXCEPT !.status = "cached"]
    ELSE IF Loops(node, TRUE) THEN Fail(st, "stack_overflow")
    ELSE [st EXCEPT !.isModified[node] = FALSE,
                    !.list = (node :> FilterList(FillFlatList(node))) @@ @,
                    !.status = "rebuilt",
                    !.ub = @ \/ ~(Reached({node}, TRUE) \subseteq st.alive)]

\* The reads of the list, each of which calls ResetList first.
ListReads == {"GetList", "GetListSize", "HasEmptyList"}

\* Insert x into a sequence sorted by the comparison comp, after the entries
\* it does not precede (std::stable_sort keeps equal entries in their order).
\* The comparisons are by object number, ascending or descending, and by pair
\* ("byPair": objects 2 and 3 are equal, before 4 and 5, which are equal).
RECURSIVE SortedInsert(_, _, _)
SortedInsert(seq, x, comp) ==
    IF seq = <<>> THEN <<x>>
    ELSE LET last == seq[Len(seq)]
             before == CASE comp = "descending" -> x > last
                         [] comp = "byPair" -> x \div 2 < last \div 2
                         [] OTHER -> x < last
         IN  IF before
             THEN Append(SortedInsert(SubSeq(seq, 1, Len(seq) - 1), x, comp), last)
             ELSE Append(seq, x)

RECURSIVE StableSort(_, _)
RECURSIVE StableSort_FromFront(_, _)
\* A sort that puts equal entries in the reverse of their order.
StableSort_FromFront(seq, comp) ==
    IF seq = <<>> THEN <<>>
    ELSE SortedInsert(StableSort_FromFront(Tail(seq), comp), Head(seq), comp)

StableSort(seq, comp) ==
    IF seq = <<>> THEN <<>>
    ELSE SortedInsert(StableSort(SubSeq(seq, 1, Len(seq) - 1), comp),
                      seq[Len(seq)], comp)

\* Object::SortChildren: std::stable_sort with the comparison given, then
\* Modify.
SortChildren(st, self, comp) ==
    Modify([st EXCEPT !.children[self] = StableSort(@, comp)], self)

\* ------------------------------------------------------------------ save

\* The outputs: start[n] and end[n] are what WriteObject and WriteObjectEnd
\* return on n.  At most one write fails.
Writers ==
    {w \in [start : [Nodes -> BOOLEAN], end : [Nodes -> BOOLEAN]] :
        Cardinality({n \in Nodes : ~w.start[n]}) + Cardinality({n \in Nodes : ~w.end[n]}) <= 1}

\* Object::Save and Object::SaveEnd as the callbacks of the functors save and
\* saveEnd: STOP when the write fails, else CONTINUE.
SaveFunctor(writer) ==
    NewFunctor("Functor", FORWARD, TRUE,
               [n \in Nodes |-> IF writer.start[n] THEN "CONTINUE" ELSE "STOP"],
               [n \in Nodes |-> IF writer.end[n] THEN "CONTINUE" ELSE "STOP"])

\* Object::SaveObject with the visibility filter of save left on.
SaveObject_VisibleOnly(self, writer) ==
    Process([code |-> "CONTINUE", log |-> <<>>, score |-> currentScore], SaveFunctor(writer), self,
            UNLIMITED_DEPTH, FALSE)

\* Object::SaveObject: save with the visibility filter off and saveEnd as end
\* functor, processed from self with the parameters Process defaults.
SaveObject(self, writer) ==
    Process([code |-> "CONTINUE", log |-> <<>>, score |-> currentScore],
            [SaveFunctor(writer) EXCEPT !.visibleOnly = FALSE], self,
            UNLIMITED_DEPTH, FALSE)

\* --------------------------------------------------------- object factory

\* The names Create and Register are called with, the constructors handed
\* to Register, and the class ids.
FactoryNames == {"note", "rest"}
Ctors == {"ctorA", "ctorB"}
OBJECT == "OBJECT"
ClassIds == {"NOTE", "REST"}

\* ObjectFactory::Register that keeps what is registered under the name.
Register_KeepFirst(name, classId, function) ==
    [ctors |-> ctors @@ (name :> function),
     classIds |-> (name :> classId) @@ classIds]

\* ObjectFactory::Register: both maps are assigned under the name.
Register(name, classId, function) ==
    [ctors |-> (name :> function) @@ ctors,
     classIds |-> (name :> classId) @@ classIds]

\* ObjectFactory::Create: the constructor found under the name is called and
\* its object returned; when none is found an error is logged and NULL
\* returned.  A constructor is a function that returns a new object.
Create(name) ==
    IF name \in DOMAIN ctors
    THEN [ret |-> CHOOSE n \in Nodes \ alive : \A m \in Nodes \ alive : n <= m,
          by |-> [name |-> name, ctor |-> ctors[name]],
          status |-> "ok"]
    ELSE [ret |-> NULL, by |-> [name |-> name, ctor |-> ""], status |-> "error_logged"]

\* ObjectFactory::GetClassId: the class id found under the name, else OBJECT
\* and an error is logged.
GetClassId(name) ==
    IF name \in DOMAIN classIds
    THEN [ret |-> classIds[name], status |-> "ok"]
    ELSE [ret |-> OBJECT, status |-> "error_logged"]

\* ------------------------------------------------------------------ clone

\* The objects of a run that clones: those of the tree and as many again.
Pool == 1..(NumNodes + NumNodes)

\* Object::GenerateID: the id is made of the next number of the generator
\* (and the first character of the class name, which the copy shares).
GenerateID(st, n) == [st EXCEPT !.id[n] = Head(st.rng), !.rng = Tail(@)]

RECURSIVE Clone(_, _)
RECURSIVE CopyObject(_, _)
RECURSIVE CopyLoop(_, _, _, _)

\* The loop of the copy constructor over the children of object: each child
\* is cloned, the clone gets this as parent, is reset (CloneReset: Modify and
\* ResetData, which touches no member of the tree) and is appended.
CopyLoop(st, object, this, i) ==
    IF st.fault # "none" \/ i > Len(st.children[object]) THEN st
    ELSE LET current == st.children[object][i]
             cloned == Clone(Deref(st, current), current)
             clone == cloned.ret
         IN  IF cloned.fault # "none" THEN cloned
             ELSE CopyLoop([Modify(SetParent(cloned, clone, this), clone)
                               EXCEPT !.children[this] = Append(@, clone)],
                           object, this, i + 1)

\* The copy constructor that copies the child pointers of the original.
CopyObject_Shallow(st, object) ==
    LET this == CHOOSE n \in Pool \ st.alive : \A m \in Pool \ st.alive : n <= m
        made == GenerateID([st EXCEPT !.alive = @ \cup {this},
                                      !.classOf[this] = st.classOf[object],
                                      !.parent[this] = NULL,
                                      !.children[this] = st.children[object],
                                      !.isModified[this] = TRUE,
                                      !.isRef[this] = st.isRef[object]], this)
    IN  [made EXCEPT !.ret = this]

\* Object::Object(const Object &object): this is the object constructed, the
\* next free one of the pool.
CopyObject(st, object) ==
    LET this == CHOOSE n \in Pool \ st.alive : \A m \in Pool \ st.alive : n <= m
        made == GenerateID([st EXCEPT !.alive = @ \cup {this},
                                      !.classOf[this] = st.classOf[object],
                                      !.parent[this] = NULL,
                                      !.children[this] = <<>>,
                                      !.isModified[this] = TRUE,
                                      !.isRef[this] = st.isRef[object]], this)
    IN  IF ~st.classOf[object].copyChildren THEN [made EXCEPT !.ret = this]
        ELSE LET copied == CopyLoop(made, object, this, 1)
             IN  IF copied.fault # "none" THEN copied ELSE [copied EXCEPT !.ret = this]

\* Clone: 'return new T(*this)' in a class that overrides it (Pedal::Clone),
\* assert(false) in Object::Clone.
Clone(st, object) ==
    IF st.classOf[object].hasClone THEN CopyObject(st, object) ELSE Fail(st, "assert")

\* ----------------------------------------------------------- overflow pass

\* What IsSystemElement, IsControlElement and IsLayerElement answer for the
\* classes of a score.
ClassKind(classId) ==
    CASE classId \in {"SB"} -> "SystemElement"
      [] classId \in {"DIR"} -> "ControlElement"
      [] classId \in {"NOTE", "BEAM", "STEM", "SYL", "FB", "FIGURE", "CLEF", "KEYSIG"}
             -> "LayerElement"
      [] OTHER -> "Object"

\* The object n of the tree as the callback sees it: its members, its
\* identity and the object GetParent returns.
This(n) == [id |-> n, up |-> parent[n]] @@ attrs[n]

\* Object::GetFirstAncestor with the default depth, as a search that starts
\* at the parent from.
RECURSIVE GetFirstAncestor(_, _)
GetFirstAncestor(from, classId) ==
    IF from = NULL THEN NULL
    ELSE IF attrs[from].classId = classId THEN from
    ELSE GetFirstAncestor(parent[from], classId)

\* LayerElement::GetOverflowStaffAlignments: the alignment of the staff the
\* element is drawn on, above and below.
GetOverflowStaffAlignments(this) ==
    LET staff == GetFirstAncestor(this.up, "STAFF")
    IN  [above |-> staff, below |-> staff]

\* Doc::GetDrawingStaffLineWidth: the line width of the document, scaled by
\* the size of the staff in percent.
GetDrawingStaffLineWidth(staffSize) == (LineWidth * staffSize) \div 100

\* StaffAlignment::SetOverflowAbove and AddBBoxAbove (side "Above"), and
\* their counterparts below: the running maximum and the contributing set.
SetOverflow(al, side, overflow, current) ==
    IF side = "Above"
    THEN [al EXCEPT !.overflowAbove = IF @ < overflow THEN overflow ELSE @,
                    !.bboxAbove = @ \cup {current}]
    ELSE [al EXCEPT !.overflowBelow = IF @ < overflow THEN overflow ELSE @,
                    !.bboxBelow = @ \cup {current}]

\* StaffAlignment::SetScoreDefClefOverflowAbove and ...Below.
SetScoreDefClefOverflow(al, side, overflow) ==
    IF side = "Above"
    THEN [al EXCEPT !.scoreDefClefOverflowAbove = IF @ < overflow THEN overflow ELSE @]
    ELSE [al EXCEPT !.scoreDefClefOverflowBelow = IF @ < overflow THEN overflow ELSE @]

\* Every stem of a cross-staff note or chord ignored, whatever its beam.
StemIgnored_AnyCrossStaff(this) ==
    /\ this.classId = "STEM"
    /\ this.up # NULL
    /\ ClassKind(attrs[this.up].classId) = "LayerElement"
    /\ attrs[this.up].crossStaff

\* The stem of a cross-staff note or chord that the pass ignores.
StemIgnored(this) ==
    /\ this.classId = "STEM"
    /\ this.up # NULL
    /\ ClassKind(attrs[this.up].classId) = "LayerElement"
    /\ attrs[this.up].crossStaff
    /\ LET beam == GetFirstAncestor(parent[this.up], "BEAM")
       IN  IF beam # NULL THEN ~attrs[beam].crossStaff
           ELSE attrs[this.up].isInBeamSpan

\* The record of one call of the callback in the log of the pass: the object,
\* what the call returned, the alignment the context is bound to after it and
\* the alignments before and after it.
Returned(ps0, ps1, this, ret) ==
    [ps1 EXCEPT !.ret = ret,
                !.passLog = Append(@, [this |-> this, ret |-> ret,
                                       bound |-> ps1.staffAlignment,
                                       before |-> ps0.alignments,
                                       after |-> ps1.alignments])]

\* One side of the overflow of current on the alignment to, with a record at
\* the threshold as well as beyond it.
RecordOverflow_AtThreshold(ps, to, side, overflow, current, isScoreDefClef) ==
    IF to = NULL THEN ps
    ELSE IF ~(overflow >= GetDrawingStaffLineWidth(ps.alignments[to].staffSize) \div 2) THEN ps
    ELSE IF isScoreDefClef
    THEN [ps EXCEPT !.alignments[to] = SetScoreDefClefOverflow(@, side, overflow)]
    ELSE [ps EXCEPT !.alignments[to] = SetOverflow(@, side, overflow, current)]

\* One side of the overflow of current on the alignment to, with the clef of
\* the system recorded like every other element.
RecordOverflow_ClefAsGeneral(ps, to, side, overflow, current, isScoreDefClef) ==
    IF to = NULL THEN ps
    ELSE IF ~(overflow > GetDrawingStaffLineWidth(ps.alignments[to].staffSize) \div 2) THEN ps
    ELSE [ps EXCEPT !.alignments[to] = SetOverflow(@, side, overflow, current)]

\* One side of the overflow of current on the alignment to.
RecordOverflow(ps, to, side, overflow, current, isScoreDefClef) ==
    IF to = NULL THEN ps
    ELSE IF ~(overflow > GetDrawingStaffLineWidth(ps.alignments[to].staffSize) \div 2) THEN ps
    ELSE IF isScoreDefClef
    THEN [ps EXCEPT !.alignments[to] = SetScoreDefClefOverflow(@, side, overflow)]
    ELSE [ps EXCEPT !.alignments[to] = SetOverflow(@, side, overflow, current)]

\* Object::CalcBBoxOverflows on this, with the parameters ps of the pass.
RECURSIVE CalcBBoxOverflows(_, _)
RECURSIVE CalcAttached(_, _, _, _)
\* The direct calls of the callback on the elements attached to the layer
\* this (the clef, key signature, mensur and meter signature it has, in
\* this order), which are no children of it.
CalcAttached(ps, this, attached, i) ==
    IF i > Len(attached) \/ ps.fault # "none" THEN ps
    ELSE CalcAttached(
             CalcBBoxOverflows(ps, [id |-> MaxScore * attached[i].slot + this.id,
                                    up |-> this.id] @@ attached[i].element),
             this, attached, i + 1)

\* The callback without the exception for beams with cross-staff content.
CalcBBoxOverflows_CountBeams(ps, this) ==
    IF this.classId = "STAFF" THEN
        IF ~this.visible THEN Returned(ps, ps, this, "SIBLINGS")
        ELSE Returned(ps, [ps EXCEPT !.staffAlignment = this.id], this, "CONTINUE")
    ELSE IF this.classId = "LAYER" THEN
        Returned(ps, CalcAttached(ps, this, this.staffDef, 1), this, "CONTINUE")
    ELSE IF ClassKind(this.classId) # "LayerElement" THEN Returned(ps, ps, this, "CONTINUE")
    ELSE IF StemIgnored(this) THEN Returned(ps, ps, this, "CONTINUE")
    ELSE IF this.classId \in {"FB", "FIGURE", "SYL"} THEN Returned(ps, ps, this, "CONTINUE")
    ELSE IF ~this.hasSelfBB THEN Returned(ps, ps, this, "CONTINUE")
    ELSE IF ps.staffAlignment = NULL THEN Returned(ps, Fail(ps, "assert"), this, "CONTINUE")
    ELSE
        LET to == GetOverflowStaffAlignments(this)
            isScoreDefClef == this.classId = "CLEF" /\ this.scoreDefRole = "SCOREDEF_SYSTEM"
            ps1 == RecordOverflow(ps, to.above, "Above", this.overflowAbove, this.id,
                                  isScoreDefClef)
            ps2 == RecordOverflow(ps1, to.below, "Below", this.overflowBelow, this.id,
                                  isScoreDefClef)
        IN  Returned(ps, ps2, this, "CONTINUE")

\* The callback that binds the alignment of a staff that is not visible too.
CalcBBoxOverflows_BindHidden(ps, this) ==
    IF this.classId = "STAFF" THEN
        IF ~this.visible
        THEN Returned(ps, [ps EXCEPT !.staffAlignment = this.id], this, "SIBLINGS")
        ELSE Returned(ps, [ps EXCEPT !.staffAlignment = this.id], this, "CONTINUE")
    ELSE IF this.classId = "LAYER" THEN
        Returned(ps, CalcAttached(ps, this, this.staffDef, 1), this, "CONTINUE")
    ELSE IF ClassKind(this.classId) # "LayerElement" THEN Returned(ps, ps, this, "CONTINUE")
    ELSE IF this.classId = "BEAM" /\ this.crossStaffContent /\ ~this.crossStaff
    THEN Returned(ps, ps, this, "CONTINUE")
    ELSE IF StemIgnored(this) THEN Returned(ps, ps, this, "CONTINUE")
    ELSE IF this.classId \in {"FB", "FIGURE", "SYL"} THEN Returned(ps, ps, this, "CONTINUE")
    ELSE IF ~this.hasSelfBB THEN Returned(ps, ps, this, "CONTINUE")
    ELSE IF ps.staffAlignment = NULL THEN Returned(ps, Fail(ps, "assert"), this, "CONTINUE")
    ELSE
        LET to == GetOverflowStaffAlignments(this)
            isScoreDefClef == this.classId = "CLEF" /\ this.scoreDefRole = "SCOREDEF_SYSTEM"
            ps1 == RecordOverflow(ps, to.above, "Above", this.overflowAbove, this.id,
                                  isScoreDefClef)
            ps2 == RecordOverflow(ps1, to.below, "Below", this.overflowBelow, this.id,
                                  isScoreDefClef)
        IN  Returned(ps, ps2, this, "CONTINUE")

CalcBBoxOverflows(ps, this) ==
    IF this.classId = "STAFF" THEN
        IF ~this.visible THEN Returned(ps, ps, this, "SIBLINGS")
        ELSE Returned(ps, [ps EXCEPT !.staffAlignment = this.id], this, "CONTINUE")
    ELSE IF this.classId = "LAYER" THEN
        Returned(ps, CalcAttached(ps, this, this.staffDef, 1), this, "CONTINUE")
    ELSE IF ClassKind(this.classId) # "LayerElement" THEN Returned(ps, ps, this, "CONTINUE")
    ELSE IF this.classId = "BEAM" /\ this.crossStaffContent /\ ~this.crossStaff
    THEN Returned(ps, ps, this, "CONTINUE")
    ELSE IF StemIgnored(this) THEN Returned(ps, ps, this, "CONTINUE")
    ELSE IF this.classId \in {"FB", "FIGURE", "SYL"} THEN Returned(ps, ps, this, "CONTINUE")
    ELSE IF ~this.hasSelfBB THEN Returned(ps, ps, this, "CONTINUE")
    ELSE IF ps.staffAlignment = NULL THEN Returned(ps, Fail(ps, "assert"), this, "CONTINUE")
    ELSE
        LET to == GetOverflowStaffAlignments(this)
            isScoreDefClef == this.classId = "CLEF" /\ this.scoreDefRole = "SCOREDEF_SYSTEM"
            ps1 == RecordOverflow(ps, to.above, "Above", this.overflowAbove, this.id,
                                  isScoreDefClef)
            ps2 == RecordOverflow(ps1, to.below, "Below", this.overflowBelow, this.id,
                                  isScoreDefClef)
        IN  Returned(ps, ps2, this, "CONTINUE")

\* Object::CalcBBoxOverflowsEnd on this.
CalcBBoxOverflowsEnd(ps, this) ==
    IF this.classId = "LAYER" THEN CalcAttached(ps, this, this.cautionStaffDef, 1) ELSE ps

\* The callbacks of the pass in the order the traversal invoked them.
RECURSIVE RunCallbacks(_, _, _)
RunCallbacks(ps, lg, i) ==
    IF i > Len(lg) \/ ps.fault # "none" THEN ps
    ELSE RunCallbacks(
             IF lg[i].ev = "visit" THEN CalcBBoxOverflows(ps, This(lg[i].node))
             ELSE CalcBBoxOverflowsEnd(ps, This(lg[i].node)),
             lg, i + 1)

\* One pass over the score from self.  The parameters start with no staff
\* alignment; the functor of the pass and its end functor are forward and see
\* visible objects only, and each callback returns what the member function
\* returns on the object (which no parameter of the pass changes); the
\* callbacks then run in the order Process invoked them.
CalcBBoxOverflowsPass(self) ==
    LET new == [staffAlignment |-> NULL, alignments |-> alignments, fault |-> "none",
                ret |-> "CONTINUE", passLog |-> <<>>]
        f == NewFunctor("Functor", FORWARD, TRUE,
                        [n \in alive |-> CalcBBoxOverflows(new, This(n)).ret],
                        [n \in alive |-> "CONTINUE"])
        t == Process([code |-> f.code, log |-> <<>>, score |-> currentScore], f, self, UNLIMITED_DEPTH, FALSE)
    IN  [f |-> f, t |-> t, ps |-> RunCallbacks(new, t.log, 1)]

\* ------------------------------------------------------------------ calls

NoCall ==
    [op |-> "none", self |-> NULL, arg |-> NULL, arg2 |-> NULL, idx |-> 0,
     status |-> "ok", ret |-> NULL, sup |-> "not_called", name |-> ""]

\* No relinquish / set-parent / insert sequence is under way.
NoScn == [stage |-> 0, node |-> NULL, from |-> NULL, to |-> NULL, fromCount |-> 0, toCount |-> 0]

\* How a call that returned moves the sequence on: Relinquish(0) on `from`
\* gives `node` (stage 1), node->SetParent(to) with to # from (stage 2),
\* to->InsertChild(node, 0) (stage 3).  fromCount and toCount are the child
\* counts of `from` and `to` before the sequence touched them.
ScnStep(st, op, self, arg, idx) ==
    IF op = "Relinquish" /\ idx = 0 /\ st.ret # NULL
    THEN [stage |-> 1, node |-> st.ret, from |-> self, to |-> NULL,
          fromCount |-> Len(children[self]), toCount |-> 0]
    ELSE IF op = "SetParent" /\ scn.stage = 1 /\ self = scn.node /\ arg \notin {NULL, scn.from}
    THEN [scn EXCEPT !.stage = 2, !.to = arg, !.toCount = Len(children[arg])]
    ELSE IF op = "InsertChild" /\ scn.stage = 2 /\ self = scn.to /\ arg = scn.node /\ idx = 0
    THEN [scn EXCEPT !.stage = 3]
    ELSE NoScn

\* The handler has run and left st.  After undefined behaviour the process
\* either goes on with the memory as the handler left it or is killed.  A
\* process that has ended (failed assertion, uncaught exception, exhausted
\* stack or memory, kill) has no heap left: no object is alive.
Commit(st, op, self, arg, arg2, idx) ==
    \E killed \in (IF st.ub THEN BOOLEAN ELSE {FALSE}) :
        LET end == IF st.fault # "none" THEN st.fault
                   ELSE IF killed THEN "undefined" ELSE "none"
        IN  /\ fault' = end
            /\ budget' = budget - 1
            /\ scn' = IF end # "none" THEN NoScn ELSE ScnStep(st, op, self, arg, idx)
            /\ parent' = IF end # "none" THEN [n \in DOMAIN parent |-> NULL] ELSE st.parent
            /\ children' = IF end # "none" THEN [n \in DOMAIN children |-> <<>>] ELSE st.children
            /\ alive' = IF end # "none" THEN {} ELSE st.alive
            /\ isRef' = IF end # "none" THEN [n \in DOMAIN isRef |-> FALSE] ELSE st.isRef
            /\ isModified' = IF end # "none" THEN [n \in DOMAIN isModified |-> FALSE] ELSE st.isModified
            /\ call' = [op |-> op, self |-> self, arg |-> arg, arg2 |-> arg2, idx |-> idx,
                        status |-> IF end # "none" THEN "fatal" ELSE st.status,
                        ret |-> IF end # "none" THEN NULL ELSE st.ret,
                        sup |-> st.sup, name |-> ""]
            /\ list' = IF end # "none" THEN <<>> ELSE st.list
            /\ UNCHANGED <<travVars, listable, factoryVars, layoutVars, cloneVars>>

Running == fault = "none" /\ budget > 0

Room(n, k) == Len(children[n]) + k <= MaxChildren

CallAddChild(self, child, over) ==
    /\ Running /\ {self, child} \subseteq alive /\ Room(self, 1)
    /\ Commit(AddChild(Cur, self, child, over), "AddChild", self, child, NULL, 0)

CallInsertBefore(self, child, newChild) ==
    /\ Running /\ {self, child, newChild} \subseteq alive /\ Room(self, 1)
    /\ Commit(InsertBefore(Cur, self, child, newChild), "InsertBefore", self, newChild, child, 0)

CallInsertAfter(self, child, newChild) ==
    /\ Running /\ {self, child, newChild} \subseteq alive /\ Room(self, 1)
    /\ Commit(InsertAfter(Cur, self, child, newChild), "InsertAfter", self, newChild, child, 0)

\* The callers of InsertChild insert an element that the sequence does not
\* hold yet.
CallInsertChild(self, element, idx) ==
    /\ Running /\ {self, element} \subseteq alive /\ Room(self, 1)
    /\ element \notin Listed(children[self])
    /\ Commit(InsertChild(Cur, self, element, idx), "InsertChild", self, element, NULL, idx)

CallDetachChild(self, idx) ==
    /\ Running /\ self \in alive
    /\ Commit(DetachChild(Cur, self, idx), "DetachChild", self, NULL, NULL, idx)

CallRelinquish(self, idx) ==
    /\ Running /\ self \in alive
    /\ Commit(Relinquish(Cur, self, idx), "Relinquish", self, NULL, NULL, idx)

CallReplaceChild(self, currentChild, replacingChild) ==
    /\ Running /\ {self, currentChild, replacingChild} \subseteq alive
    /\ Commit(ReplaceChild(Cur, self, currentChild, replacingChild),
              "ReplaceChild", self, replacingChild, currentChild, 0)

CallMoveChildrenFrom(self, sourceParent, idx, allowTypeChange) ==
    /\ Running /\ {self, sourceParent} \subseteq alive
    /\ self # sourceParent => Room(self, Len(children[sourceParent]))
    /\ Commit(MoveChildrenFrom(Cur, self, sourceParent, idx, allowTypeChange),
              "MoveChildrenFrom", self, sourceParent, IF allowTypeChange THEN 1 ELSE 0, idx)

CallMoveItselfTo(self, targetParent, over) ==
    /\ Running /\ {self, targetParent} \subseteq alive /\ Room(targetParent, 1)
    /\ Commit(MoveItselfTo(Cur, self, targetParent, over),
              "MoveItselfTo", self, targetParent, NULL, 0)

CallHasDescendant(self, child, deepness) ==
    /\ Running /\ {self, child} \subseteq alive
    /\ Commit([Cur EXCEPT !.status = IF HasDescendant(Cur, self, child, deepness)
                                     THEN "true" ELSE "false"],
              "HasDescendant", self, child, NULL, deepness)

CallIsPreOrdered(left, right) ==
    /\ Running /\ {left, right} \subseteq alive
    /\ Commit(IsPreOrdered(Cur, left, right), "IsPreOrdered", left, right, NULL, 0)

CallDeleteChild(self, child) ==
    /\ Running /\ {self, child} \subseteq alive
    /\ Commit(DeleteChild(Cur, self, child), "DeleteChild", self, child, NULL, 0)

CallClearRelinquishedChildren(self) ==
    /\ Running /\ self \in alive
    /\ Commit(ClearRelinquishedChildren(Cur, self),
              "ClearRelinquishedChildren", self, NULL, NULL, 0)

CallSetAsReferenceObject(self) ==
    /\ Running /\ self \in alive /\ ~isRef[self]
    /\ Commit(SetAsReferenceObject(Cur, self), "SetAsReferenceObject", self, NULL, NULL, 0)

CallSetParent(self, newParent) ==
    /\ Running /\ {self, newParent} \subseteq alive
    /\ Commit(SetParent(Cur, self, newParent), "SetParent", self, newParent, NULL, 0)

CallResetParent(self) ==
    /\ Running /\ self \in alive
    /\ Commit(ResetParent(Cur, self), "ResetParent", self, NULL, NULL, 0)

\* Object::Modify(false) only clears the flag of the object itself.
CallModify(self, modified) ==
    /\ Running /\ self \in alive
    /\ Commit(IF modified THEN Modify(Cur, self) ELSE [Cur EXCEPT !.isModified[self] = FALSE],
              "Modify", self, NULL, NULL, IF modified THEN 1 ELSE 0)

\* Object::Reset, which is ClearChildren on a live object.
CallClearChildren(self) ==
    /\ Running /\ self \in alive
    /\ Commit(ClearChildren(Cur, self), "ClearChildren", self, NULL, NULL, 0)

CallDeleteChildrenByComparison(self, className) ==
    /\ Running /\ self \in alive
    /\ Commit(DeleteChildrenByComparison(Cur, self, className),
              "DeleteChildrenByComparison", self, NULL, NULL, 0)

\* One traversal by the functor: start->Process(functor, deepness, skipFirst).
CallProcess(self, deepness, skipFirst) ==
    /\ fault = "none"
    /\ call = NoCall
    /\ self \in alive
    /\ LET t == Process([code |-> functor.code, log |-> <<>>, score |-> currentScore],
                        functor, self, deepness, skipFirst)
       IN  /\ functor' = [functor EXCEPT !.code = t.code]
           /\ log' = t.log
           /\ currentScore' = t.score
    /\ call' = [NoCall EXCEPT !.op = "Process", !.self = self, !.idx = deepness,
                              !.arg2 = IF skipFirst THEN 1 ELSE 0]
    /\ budget' = budget - 1
    /\ UNCHANGED <<treeVars, fault, scn, editorial, hidden, listVars, factoryVars, attrs,
                   params, alignments, passLog, cloneVars>>

CallSortChildren(self, comp) ==
    /\ Running /\ self \in alive
    /\ Commit(SortChildren(Cur, self, comp), "SortChildren", self, NULL, NULL,
              CASE comp = "descending" -> 1 [] comp = "byPair" -> 2 [] OTHER -> 0)

\* GetList, GetListSize or HasEmptyList on the list interface of node.
CallGetList(read, node) ==
    /\ Running /\ node \in alive
    /\ LET r == ResetList(Cur, node)
       IN  Commit(r, read, node, NULL, NULL,
                  IF node \in DOMAIN r.list THEN Len(r.list[node]) ELSE 0)

\* SaveObject on a tree in which the recursion of Process ends.  The functor
\* kept is save, with the code it has at the end.
CallSaveObject(self, writer) ==
    /\ Running /\ self \in alive /\ ~Loops(self, FALSE)
    /\ LET t == SaveObject(self, writer)
       IN  /\ functor' = [SaveFunctor(writer) EXCEPT !.visibleOnly = FALSE, !.code = t.code]
           /\ log' = t.log
           /\ currentScore' = t.score
    /\ call' = [NoCall EXCEPT !.op = "SaveObject", !.self = self, !.ret = 1]
    /\ budget' = budget - 1
    /\ UNCHANGED <<treeVars, fault, scn, editorial, hidden, listVars, factoryVars, attrs,
                   params, alignments, passLog, cloneVars>>

CallCalcBBoxOverflows(self) ==
    /\ Running /\ self \in alive /\ (self = 1 \/ attrs[self].classId = "LAYER")
    /\ LET r == CalcBBoxOverflowsPass(self)
           ended == r.ps.fault # "none"
       IN  /\ functor' = [r.f EXCEPT !.code = r.t.code]
           /\ log' = r.t.log
           /\ currentScore' = IF ended THEN NULL ELSE r.t.score
           /\ fault' = r.ps.fault
           /\ params' = [staffAlignment |-> IF ended THEN NULL ELSE r.ps.staffAlignment]
           /\ alignments' = IF ended THEN <<>> ELSE r.ps.alignments
           /\ passLog' = IF ended THEN <<>> ELSE r.ps.passLog
           /\ attrs' = IF ended THEN <<>> ELSE attrs
           /\ parent' = IF ended THEN [n \in DOMAIN parent |-> NULL] ELSE parent
           /\ children' = IF ended THEN [n \in DOMAIN children |-> <<>>] ELSE children
           /\ alive' = IF ended THEN {} ELSE alive
           /\ call' = [NoCall EXCEPT !.op = "CalcBBoxOverflows", !.self = self,
                                     !.status = IF ended THEN "fatal" ELSE "ok"]
    /\ budget' = budget - 1
    /\ UNCHANGED <<isRef, isModified, scn, editorial, hidden, listVars, factoryVars, cloneVars>>

CallClone(self) ==
    /\ Running /\ self \in alive
    /\ Cardinality(Pool \ alive) >= Cardinality(alive) /\ Len(rng) >= Cardinality(alive)
    /\ LET r == Clone(Cur @@ [classOf |-> classOf, id |-> id, rng |-> rng], self)
           ended == r.fault # "none"
       IN  /\ fault' = r.fault
           /\ parent' = IF ended THEN [n \in Pool |-> NULL] ELSE r.parent
           /\ children' = IF ended THEN [n \in Pool |-> <<>>] ELSE r.children
           /\ alive' = IF ended THEN {} ELSE r.alive
           /\ isRef' = IF ended THEN [n \in Pool |-> FALSE] ELSE r.isRef
           /\ isModified' = IF ended THEN [n \in Pool |-> FALSE] ELSE r.isModified
           /\ classOf' = r.classOf
           /\ id' = r.id
           /\ rng' = r.rng
           /\ call' = [NoCall EXCEPT !.op = "Clone", !.self = self,
                                     !.status = IF ended THEN "fatal" ELSE "ok",
                                     !.ret = IF ended THEN NULL ELSE r.ret]
    /\ budget' = budget - 1
    /\ UNCHANGED <<scn, travVars, listVars, factoryVars, layoutVars>>

CallRegister(name, classId, function) ==
    /\ Running
    /\ LET r == Register(name, classId, function)
       IN  ctors' = r.ctors /\ classIds' = r.classIds
    /\ latest' = (name :> function) @@ latest
    /\ call' = [NoCall EXCEPT !.op = "Register", !.name = name]
    /\ budget' = budget - 1
    /\ UNCHANGED <<treeVars, fault, scn, travVars, listVars, builtBy, layoutVars, cloneVars>>

\* The constructor called by Create constructs the object (Object::Init).
CallCreate(name) ==
    /\ Running
    /\ name \in DOMAIN ctors => alive # Nodes
    /\ LET r == Create(name)
       IN  /\ alive' = IF r.ret # NULL THEN alive \cup {r.ret} ELSE alive
           /\ builtBy' = IF r.ret # NULL THEN (r.ret :> r.by) @@ builtBy ELSE builtBy
           /\ call' = [NoCall EXCEPT !.op = "Create", !.name = name, !.ret = r.ret,
                                     !.status = r.status]
    /\ budget' = budget - 1
    /\ UNCHANGED <<parent, children, isRef, isModified, fault, scn, travVars, listVars,
                   ctors, classIds, latest, layoutVars, cloneVars>>

CallGetClassId(name) ==
    /\ Running
    /\ LET r == GetClassId(name)
       IN  call' = [NoCall EXCEPT !.op = "GetClassId", !.name = name, !.sup = r.ret,
                                 !.status = r.status]
    /\ budget' = budget - 1
    /\ UNCHANGED <<treeVars, fault, scn, travVars, listVars, factoryVars, layoutVars, cloneVars>>

\* ---------------------------------------------------------- specification

\* No list interface has built its list, and FilterList keeps every object.
NoLists ==
    /\ list = <<>>
    /\ listable = Nodes

\* Nothing is registered with the object factory and it has built nothing.
NoFactory ==
    /\ ctors = <<>>
    /\ classIds = <<>>
    /\ builtBy = <<>>
    /\ latest = <<>>

\* No score has been laid out.
NoLayout ==
    /\ attrs = <<>>
    /\ params = [staffAlignment |-> NULL]
    /\ alignments = <<>>
    /\ passLog = <<>>
    /\ currentScore = NULL

\* No object has a class or an id on record, and the generator is not seeded.
NoClones ==
    /\ classOf = <<>>
    /\ id = <<>>
    /\ rng = <<>>

\* Every object of the pool has been constructed (Object::Init): no parent,
\* no children, modified, not a reference object.  The run makes at most n
\* calls.
Constructed(n) ==
    /\ parent = [m \in Nodes |-> NULL]
    /\ children = [m \in Nodes |-> <<>>]
    /\ alive = Nodes
    /\ isRef = [m \in Nodes |-> FALSE]
    /\ isModified = [m \in Nodes |-> TRUE]
    /\ fault = "none"
    /\ budget = n
    /\ scn = NoScn
    /\ call = NoCall
    /\ editorial = {}
    /\ hidden = {}
    /\ functor = NoFunctor
    /\ log = <<>>
    /\ NoLists
    /\ NoFactory
    /\ NoLayout
    /\ NoClones

Init == Constructed(MaxCalls)

InitLean == Constructed(MaxLeanCalls)

\* The objects an insert beside or a replacement on self is called with as
\* the child in place: the children of self, and self for every object that
\* is not a child (the first assertion fails on all of them alike).
Anchors(self) == Listed(children[self]) \cup {self}

\* The tree operations.
Next ==
    \/ \E self \in Nodes, child \in Nodes, over \in BOOLEAN : CallAddChild(self, child, over)
    \/ \E self \in Nodes, newChild \in Nodes : \E child \in Anchors(self) :
          CallInsertBefore(self, child, newChild)
    \/ \E self \in Nodes, newChild \in Nodes : \E child \in Anchors(self) :
          CallInsertAfter(self, child, newChild)
    \/ \E self \in Nodes, element \in Nodes : \E idx \in 0..Len(children[self]) :
          CallInsertChild(self, element, idx)
    \/ \E self \in Nodes : \E idx \in -1..Len(children[self]) : CallDetachChild(self, idx)
    \/ \E self \in Nodes : \E idx \in -1..Len(children[self]) : CallRelinquish(self, idx)
    \/ \E self \in Nodes, replacingChild \in Nodes : \E currentChild \in Anchors(self) :
          CallReplaceChild(self, currentChild, replacingChild)
    \/ \E self \in Nodes, sourceParent \in Nodes, allowTypeChange \in BOOLEAN :
          \E idx \in -1..Len(children[self]) :
          CallMoveChildrenFrom(self, sourceParent, idx, allowTypeChange)
    \/ \E self \in Nodes, targetParent \in Nodes, over \in BOOLEAN :
          CallMoveItselfTo(self, targetParent, over)
    \/ \E self \in Nodes, child \in Nodes : CallDeleteChild(self, child)
    \/ \E self \in Nodes : CallClearRelinquishedChildren(self)
    \/ \E self \in Nodes : CallSetAsReferenceObject(self)

Spec == Init /\ [][Next]_vars

\* The tree operations together with the other ways to destroy children.
NextOwn ==
    \/ Next
    \/ \E self \in Nodes : CallClearChildren(self)
    \/ \E self \in Nodes, className \in Listed(ClassNames) :
          CallDeleteChildrenByComparison(self, className)

SpecOwn == Init /\ [][NextOwn]_vars

\* Relinquishing a child and inserting it again by hand, with the primitives
\* SetParent and InsertChild.
NextReinsert ==
    \/ \E self \in Nodes, child \in Nodes, over \in BOOLEAN : CallAddChild(self, child, over)
    \/ \E self \in Nodes : \E idx \in -1..Len(children[self]) : CallRelinquish(self, idx)
    \/ \E self \in Nodes, newParent \in Nodes : CallSetParent(self, newParent)
    \/ \E self \in Nodes : CallResetParent(self)
    \/ \E self \in Nodes, element \in Nodes : \E idx \in 0..Len(children[self]) :
          CallInsertChild(self, element, idx)
    \/ \E self \in Nodes : CallClearRelinquishedChildren(self)

SpecReinsert == InitLean /\ [][NextReinsert]_vars

\* Appending, inserting and detaching while the dirty flags are set and
\* cleared.
NextModify ==
    \/ \E self \in Nodes, child \in Nodes, over \in BOOLEAN : CallAddChild(self, child, over)
    \/ \E self \in Nodes, child \in Nodes, newChild \in Nodes :
          CallInsertBefore(self, child, newChild)
    \/ \E self \in Nodes : \E idx \in -1..Len(children[self]) : CallDetachChild(self, idx)
    \/ \E self \in Nodes, modified \in BOOLEAN : CallModify(self, modified)

SpecModify == InitLean /\ [][NextModify]_vars

\* Structural changes between reads of the cached lists.
NextCache ==
    \/ \E self \in Nodes, child \in Nodes, over \in BOOLEAN : CallAddChild(self, child, over)
    \/ \E self \in Nodes, child \in Nodes, newChild \in Nodes :
          CallInsertBefore(self, child, newChild)
    \/ \E self \in Nodes, element \in Nodes : \E idx \in 0..Len(children[self]) :
          CallInsertChild(self, element, idx)
    \/ \E self \in Nodes : \E idx \in -1..Len(children[self]) : CallDetachChild(self, idx)
    \/ \E self \in Nodes : \E idx \in -1..Len(children[self]) : CallRelinquish(self, idx)
    \/ \E self \in Nodes, currentChild \in Nodes, replacingChild \in Nodes :
          CallReplaceChild(self, currentChild, replacingChild)
    \/ \E self \in Nodes, sourceParent \in Nodes, allowTypeChange \in BOOLEAN :
          \E idx \in -1..Len(children[self]) :
          CallMoveChildrenFrom(self, sourceParent, idx, allowTypeChange)
    \/ \E self \in Nodes, child \in Nodes : CallDeleteChild(self, child)
    \/ \E self \in Nodes, comp \in {"ascending", "descending"} : CallSortChildren(self, comp)
    \/ \E read \in ListReads, node \in Nodes : CallGetList(read, node)

SpecCache == InitLean /\ [][NextCache]_vars

\* Objects 1 and 2 with the children AddChild has given them, in any order,
\* no object a child of both; at most one child has been relinquished and is
\* still an entry of its former parent, and the objects that are no child may
\* have got a parent from SetParent already.  One call is to come.
InitOrder ==
  LET Family == 1..(NumNodes + 2) IN
    /\ LET Lineups == UNION {{q \in [1..k -> Family \ {1, 2}] :
                                \A i \in 1..k, j \in 1..k : q[i] = q[j] => i = j} :
                            k \in 0..MaxChildren}
       IN  \E first \in Lineups, second \in Lineups :
          /\ Listed(first) \cap Listed(second) = {}
          /\ children = [n \in Family |-> IF n = 1 THEN first ELSE IF n = 2 THEN second
                                           ELSE <<>>]
          /\ \E given \in SUBSET (Listed(first) \cup Listed(second)), set \in {NULL, 1, 2} :
                /\ Cardinality(given) <= 1
                /\ parent = [n \in Family |-> IF n \in given \/ n \in {1, 2} THEN NULL
                                              ELSE IF n \in Listed(first) THEN 1
                                              ELSE IF n \in Listed(second) THEN 2
                                              ELSE set]
    /\ alive = Family
    /\ isRef = [n \in Family |-> FALSE]
    /\ isModified = [n \in Family |-> TRUE]
    /\ fault = "none"
    /\ budget = 1
    /\ scn = NoScn
    /\ call = NoCall
    /\ editorial = {}
    /\ hidden = {}
    /\ functor = NoFunctor
    /\ log = <<>>
    /\ NoLists
    /\ NoFactory
    /\ NoLayout
    /\ NoClones

\* The calls that change a child sequence, the sort among them, on the two
\* objects that have children, with any object of the family (the domain of
\* parent) as argument; any object moves itself.
NextOrder ==
    \/ \E self \in {1, 2}, child \in DOMAIN parent, over \in BOOLEAN : CallAddChild(self, child, over)
    \/ \E self \in {1, 2}, newChild \in DOMAIN parent : \E child \in Anchors(self) :
          CallInsertBefore(self, child, newChild)
    \/ \E self \in {1, 2}, newChild \in DOMAIN parent : \E child \in Anchors(self) :
          CallInsertAfter(self, child, newChild)
    \/ \E self \in {1, 2}, element \in DOMAIN parent : \E idx \in 0..Len(children[self]) :
          CallInsertChild(self, element, idx)
    \/ \E self \in {1, 2} : \E idx \in -1..Len(children[self]) : CallDetachChild(self, idx)
    \/ \E self \in {1, 2} : \E idx \in -1..Len(children[self]) : CallRelinquish(self, idx)
    \/ \E self \in {1, 2}, replacingChild \in DOMAIN parent : \E currentChild \in Anchors(self) :
          CallReplaceChild(self, currentChild, replacingChild)
    \/ \E self \in {1, 2}, sourceParent \in DOMAIN parent, allowTypeChange \in BOOLEAN :
          \E idx \in -1..(Len(children[self]) + 1) :
          CallMoveChildrenFrom(self, sourceParent, idx, allowTypeChange)
    \/ \E self \in DOMAIN parent, targetParent \in DOMAIN parent, over \in BOOLEAN :
          CallMoveItselfTo(self, targetParent, over)
    \/ \E self \in {1, 2} : CallClearRelinquishedChildren(self)
    \/ \E self \in {1, 2}, className \in {"Staff", "Object"} :
          CallDeleteChildrenByComparison(self, className)
    \/ \E self \in {1, 2}, comp \in {"ascending", "byPair"} : CallSortChildren(self, comp)

SpecOrder == InitOrder /\ [][NextOrder]_vars

\* The parent functions of the trees over the whole pool: one root, and
\* every object reaches it.
RECURSIVE Up(_, _, _)
Up(p, n, k) == IF k = 0 \/ n = NULL THEN n ELSE Up(p, p[n], k - 1)

TreeParents ==
    {p \in [Nodes -> Nodes \cup {NULL}] :
        /\ Cardinality({n \in Nodes : p[n] = NULL}) = 1
        /\ \A n \in Nodes : Up(p, n, NumNodes) = NULL}

\* The orders in which the children have been appended.
Ranks == {r \in [Nodes -> 1..NumNodes] : \A m \in Nodes, n \in Nodes : r[m] = r[n] => m = n}

\* The children of n under p, in the order of rank.
ChildrenOf(p, rank, n) ==
    LET kids == {c \in Nodes : p[c] = n}
    IN  [i \in 1..Cardinality(kids) |->
            CHOOSE c \in kids : Cardinality({d \in kids : rank[d] < rank[c]}) = i - 1]

\* The visitors: at most one object on which the entry callback returns
\* STOP, at most one on which it returns SIBLINGS, CONTINUE on the others.
EntryCodes ==
    {e \in [Nodes -> FunctorCodes] :
        /\ Cardinality({n \in Nodes : e[n] = "STOP"}) <= 1
        /\ Cardinality({n \in Nodes : e[n] = "SIBLINGS"}) <= 1}

\* A tree built by appending, and a functor constructed for one traversal.
InitProcess ==
    /\ \E p \in TreeParents, rank \in Ranks :
          /\ parent = p
          /\ children = [n \in Nodes |-> ChildrenOf(p, rank, n)]
    /\ alive = Nodes
    /\ isRef = [n \in Nodes |-> FALSE]
    /\ isModified = [n \in Nodes |-> TRUE]
    /\ fault = "none"
    /\ budget = MaxCalls
    /\ scn = NoScn
    /\ call = NoCall
    /\ editorial = {}
    /\ hidden = {}
    /\ \E kind \in {"Functor", "MutableFunctor"}, direction \in {FORWARD, BACKWARD},
          hasEnd \in BOOLEAN, entry \in EntryCodes, exit \in FunctorCodes :
          /\ ~hasEnd => exit = "CONTINUE"
          /\ functor = NewFunctor(kind, direction, hasEnd, entry, Always(exit))
    /\ log = <<>>
    /\ NoLists
    /\ NoFactory
    /\ NoLayout
    /\ NoClones

NextProcess ==
    \E self \in Nodes, deepness \in {-1, 1}, skipFirst \in BOOLEAN :
        CallProcess(self, deepness, skipFirst)

SpecProcess == InitProcess /\ [][NextProcess]_vars

\* The depths Process is called with: unlimited, the start alone, and one and
\* two levels below it.
DepthLimits == {-1, 0, 1, 2}

\* A tree built by appending, some of its objects editorial elements, object 1
\* (the root, an inner object or a leaf, as the tree has it) hidden or not, and
\* a functor whose callback returns CONTINUE on every
\* object, with or without the visibility filter, in either direction.
InitDepth ==
    /\ \E p \in TreeParents, rank \in Ranks :
          /\ parent = p
          /\ children = [n \in Nodes |-> ChildrenOf(p, rank, n)]
    /\ alive = Nodes
    /\ isRef = [n \in Nodes |-> FALSE]
    /\ isModified = [n \in Nodes |-> TRUE]
    /\ fault = "none"
    /\ budget = MaxCalls
    /\ scn = NoScn
    /\ call = NoCall
    /\ editorial \in SUBSET Nodes
    /\ hidden \in {{}, {1}}
    /\ \E direction \in {FORWARD, BACKWARD}, visibleOnly \in BOOLEAN :
          functor = [NewFunctor("Functor", direction, FALSE, Always("CONTINUE"),
                                Always("CONTINUE"))
                        EXCEPT !.visibleOnly = visibleOnly]
    /\ log = <<>>
    /\ NoLists
    /\ NoFactory
    /\ NoLayout
    /\ NoClones

NextDepth == \E self \in Nodes, deepness \in DepthLimits : CallProcess(self, deepness, FALSE)

SpecDepth == InitDepth /\ [][NextDepth]_vars

\* A tree built by appending and a functor with filters that accept some of
\* the objects, or with no filters, with or without an end functor, whose
\* callbacks return CONTINUE on every object.
InitFilter ==
    /\ \E p \in TreeParents, rank \in Ranks :
          /\ parent = p
          /\ children = [n \in Nodes |-> ChildrenOf(p, rank, n)]
    /\ alive = Nodes
    /\ isRef = [n \in Nodes |-> FALSE]
    /\ isModified = [n \in Nodes |-> TRUE]
    /\ fault = "none"
    /\ budget = MaxCalls
    /\ scn = NoScn
    /\ call = NoCall
    /\ editorial = {}
    /\ hidden = {}
    /\ \E direction \in {FORWARD, BACKWARD}, hasEnd \in BOOLEAN, on \in BOOLEAN,
          pass \in SUBSET Nodes :
          /\ ~on => pass = {}
          /\ functor = [NewFunctor("Functor", direction, hasEnd, Always("CONTINUE"),
                                    Always("CONTINUE"))
                            EXCEPT !.filters = [on |-> on, pass |-> pass]]
    /\ log = <<>>
    /\ NoLists
    /\ NoFactory
    /\ NoLayout
    /\ NoClones

NextFilter == \E self \in Nodes, deepness \in {-1, 1} : CallProcess(self, deepness, FALSE)

SpecFilter == InitFilter /\ [][NextFilter]_vars

\* A tree built by appending object after object, a document whose current
\* score is one of the scores or none, and a visitor that returns CONTINUE on
\* every object.  Every object is a score, the end marker of a page milestone
\* whose start is no object, object 1 or object 2, or of another class.
InitScore ==
    LET ScoreClasses(n) ==
            {[classId |-> "OBJECT"], [classId |-> "SCORE"]}
                \cup {[classId |-> "PAGE_MILESTONE_END", start |-> s] :
                          s \in {NULL, 1, 2} \ {n}}
    IN
    /\ \E p \in TreeParents :
          /\ parent = p
          /\ children = [n \in Nodes |-> ChildrenOf(p, [m \in Nodes |-> m], n)]
    /\ alive = Nodes
    /\ isRef = [n \in Nodes |-> FALSE]
    /\ isModified = [n \in Nodes |-> TRUE]
    /\ fault = "none"
    /\ budget = 1
    /\ scn = NoScn
    /\ call = NoCall
    /\ editorial = {}
    /\ hidden = {}
    /\ \E direction \in {FORWARD, BACKWARD} :
          functor = NewFunctor("MutableFunctor", direction, FALSE, Always("CONTINUE"),
                               Always("CONTINUE"))
    /\ log = <<>>
    /\ NoLists
    /\ NoFactory
    /\ attrs \in {a \in [Nodes -> UNION {ScoreClasses(n) : n \in Nodes}] :
                    \A n \in Nodes : a[n] \in ScoreClasses(n)}
    /\ params = [staffAlignment |-> NULL]
    /\ alignments = <<>>
    /\ passLog = <<>>
    /\ currentScore \in {NULL} \cup {n \in Nodes : attrs[n].classId = "SCORE"}
    /\ NoClones

NextScore == \E self \in Nodes, skipFirst \in BOOLEAN : CallProcess(self, UNLIMITED_DEPTH, skipFirst)

SpecScore == InitScore /\ [][NextScore]_vars

\* A tree built by appending, object 1 or 2 (anywhere in the tree) an editorial
\* element or neither, object 1 hidden or not, a FilterList that keeps some of the objects, and one read of
\* a list.
InitList ==
    /\ \E p \in TreeParents, rank \in Ranks :
          /\ parent = p
          /\ children = [n \in Nodes |-> ChildrenOf(p, rank, n)]
    /\ alive = Nodes
    /\ isRef = [n \in Nodes |-> FALSE]
    /\ isModified = [n \in Nodes |-> TRUE]
    /\ fault = "none"
    /\ budget = 1
    /\ scn = NoScn
    /\ call = NoCall
    /\ editorial \in {{}, {1}, {2}}
    /\ hidden \in {{}, {1}}
    /\ functor = NoFunctor
    /\ log = <<>>
    /\ list = <<>>
    /\ listable \in SUBSET Nodes
    /\ NoFactory
    /\ NoLayout
    /\ NoClones

NextList == \E read \in ListReads, node \in Nodes : CallGetList(read, node)

SpecList == InitList /\ [][NextList]_vars

\* A tree built by appending, object 1 or 2 an editorial element or neither,
\* object 1 hidden or not, and one SaveObject.
InitSave ==
    /\ \E p \in TreeParents, rank \in Ranks :
          /\ parent = p
          /\ children = [n \in Nodes |-> ChildrenOf(p, rank, n)]
    /\ alive = Nodes
    /\ isRef = [n \in Nodes |-> FALSE]
    /\ isModified = [n \in Nodes |-> TRUE]
    /\ fault = "none"
    /\ budget = 1
    /\ scn = NoScn
    /\ call = NoCall
    /\ editorial \in {{}, {1}, {2}}
    /\ hidden \in {{}, {1}}
    /\ functor = NoFunctor
    /\ log = <<>>
    /\ NoLists
    /\ NoFactory
    /\ NoLayout
    /\ NoClones

NextSave == \E self \in Nodes, writer \in Writers : CallSaveObject(self, writer)

SpecSave == InitSave /\ [][NextSave]_vars

\* A tree built by appending, and one question about it.
InitQuery ==
    /\ \E p \in TreeParents, rank \in Ranks :
          /\ parent = p
          /\ children = [n \in Nodes |-> ChildrenOf(p, rank, n)]
    /\ alive = Nodes
    /\ isRef = [n \in Nodes |-> FALSE]
    /\ isModified = [n \in Nodes |-> TRUE]
    /\ fault = "none"
    /\ budget = 1
    /\ scn = NoScn
    /\ call = NoCall
    /\ editorial = {}
    /\ hidden = {}
    /\ functor = NoFunctor
    /\ log = <<>>
    /\ NoLists
    /\ NoFactory
    /\ NoLayout
    /\ NoClones

NextQuery ==
    \/ \E self \in Nodes, child \in Nodes, deepness \in {UNLIMITED_DEPTH, 0, 1} :
          CallHasDescendant(self, child, deepness)
    \/ \E left \in Nodes, right \in Nodes : CallIsPreOrdered(left, right)

SpecQuery == InitQuery /\ [][NextQuery]_vars

\* The factory before any registration, and no object constructed yet.
InitFactory ==
    /\ parent = [m \in Nodes |-> NULL]
    /\ children = [m \in Nodes |-> <<>>]
    /\ alive = {}
    /\ isRef = [m \in Nodes |-> FALSE]
    /\ isModified = [m \in Nodes |-> TRUE]
    /\ fault = "none"
    /\ budget = MaxLeanCalls
    /\ scn = NoScn
    /\ call = NoCall
    /\ editorial = {}
    /\ hidden = {}
    /\ functor = NoFunctor
    /\ log = <<>>
    /\ NoLists
    /\ NoFactory
    /\ NoLayout
    /\ NoClones

NextFactory ==
    \/ \E name \in FactoryNames, classId \in ClassIds, function \in Ctors :
          CallRegister(name, classId, function)
    \/ \E name \in FactoryNames : CallCreate(name)
    \/ \E name \in FactoryNames : CallGetClassId(name)

SpecFactory == InitFactory /\ [][NextFactory]_vars

\* The members of an object of class classId as constructed.
NewObject(classId) ==
    [classId |-> classId, visible |-> TRUE, staffSize |-> 100, crossStaff |-> FALSE,
     crossStaffContent |-> FALSE, isInBeamSpan |-> FALSE, hasSelfBB |-> FALSE,
     overflowAbove |-> 0, overflowBelow |-> 0, scoreDefRole |-> "SCOREDEF_NONE",
     staffDef |-> <<>>, cautionStaffDef |-> <<>>]

\* An element of class classId drawn with the overflows above and below that
\* CalcOverflowAbove and CalcOverflowBelow compute for it.
Drawn(classId, above, below) ==
    [NewObject(classId) EXCEPT !.hasSelfBB = TRUE, !.overflowAbove = above,
                               !.overflowBelow = below]

\* The objects a score has as children of an object of class classId.
\* Staves are visible or not.  Layers have no attached element, or the clef of
\* the system and a cautionary key signature.  Notes are drawn with an overflow
\* above beyond the threshold and one below at it, drawn cross-staff with both
\* beyond it, or not drawn, cross-staff and in a beam span.  Beams have no
\* cross-staff content, or cross-staff content in a beam that is cross-staff
\* itself or not.
ChildrenFor(classId) ==
    LET Staves == {NewObject("STAFF"), [NewObject("STAFF") EXCEPT !.visible = FALSE]}
        Layers ==
            {NewObject("LAYER"),
             [NewObject("LAYER") EXCEPT
                 !.staffDef = <<[slot |-> 1,
                                 element |-> [Drawn("CLEF", 4, 2) EXCEPT
                                                !.scoreDefRole = "SCOREDEF_SYSTEM"]]>>,
                 !.cautionStaffDef = <<[slot |-> 6, element |-> Drawn("KEYSIG", 2, 3)]>>]}
        Notes ==
            {Drawn("NOTE", 3, 2),
             [Drawn("NOTE", 4, 3) EXCEPT !.crossStaff = TRUE],
             [NewObject("NOTE") EXCEPT !.crossStaff = TRUE, !.isInBeamSpan = TRUE]}
        Beams ==
            {Drawn("BEAM", 4, 3),
             [Drawn("BEAM", 4, 3) EXCEPT !.crossStaffContent = TRUE],
             [Drawn("BEAM", 4, 3) EXCEPT !.crossStaffContent = TRUE, !.crossStaff = TRUE]}
    IN  CASE classId = "MEASURE" -> Staves \cup {Drawn("DIR", 4, 4)}
          [] classId = "STAFF" -> Layers
          [] classId = "LAYER" -> Notes \cup Beams
          [] classId = "BEAM" -> Notes
          [] classId = "NOTE" -> {Drawn("STEM", 3, 4), Drawn("SYL", 4, 4)}
          [] OTHER -> {}

\* StaffAlignment::StaffAlignment for a staff of size staffSize.
NewAlignment(staffSize) ==
    [staffSize |-> staffSize, overflowAbove |-> 0, overflowBelow |-> 0,
     bboxAbove |-> {}, bboxBelow |-> {},
     scoreDefClefOverflowAbove |-> 0, scoreDefClefOverflowBelow |-> 0]

\* A score of one object, a measure or a visible staff, before anything is
\* added to it, and one overflow pass to come.
InitOverflow ==
    /\ parent = [n \in 1..MaxScore |-> NULL]
    /\ children = [n \in 1..MaxScore |-> <<>>]
    /\ alive = {1}
    /\ \/ attrs = (1 :> NewObject("MEASURE")) /\ alignments = <<>>
       \/ attrs = (1 :> NewObject("STAFF")) /\ alignments = (1 :> NewAlignment(100))
    /\ isRef = [n \in 1..MaxScore |-> FALSE]
    /\ isModified = [n \in 1..MaxScore |-> TRUE]
    /\ fault = "none"
    /\ budget = 1
    /\ scn = NoScn
    /\ call = NoCall
    /\ editorial = {}
    /\ hidden = {}
    /\ functor = NoFunctor
    /\ log = <<>>
    /\ NoLists
    /\ NoFactory
    /\ params = [staffAlignment |-> NULL]
    /\ passLog = <<>>
    /\ currentScore = NULL
    /\ NoClones

\* The object n and its ancestors.
RECURSIVE Spine(_)
Spine(n) == IF n = NULL THEN {} ELSE {n} \cup Spine(parent[n])

\* The next object of the score, object, is constructed and appended to the
\* children of self; a staff comes with its alignment.  The objects are
\* numbered in document order: self is the object built last or one of its
\* ancestors.
BuildScore(self, object) ==
    /\ Running /\ alive # (1..MaxScore) /\ self \in Spine(Cardinality(alive))
    /\ object \in ChildrenFor(attrs[self].classId)
    /\ LET new == Cardinality(alive) + 1
       IN  /\ alive' = alive \cup {new}
           /\ attrs' = attrs @@ (new :> object)
           /\ parent' = [parent EXCEPT ![new] = self]
           /\ children' = [children EXCEPT ![self] = Append(@, new)]
           /\ alignments' = IF object.classId = "STAFF"
                             THEN alignments @@ (new :> NewAlignment(object.staffSize))
                             ELSE alignments
    /\ UNCHANGED <<isRef, isModified, fault, budget, scn, call, travVars, listVars,
                   factoryVars, params, passLog, currentScore, cloneVars>>

\* The pass starts at the root of the score or at a layer.
NextOverflow ==
    \/ /\ Running
       /\ \E self \in Spine(Cardinality(alive)) :
             \E object \in ChildrenFor(attrs[self].classId) : BuildScore(self, object)
    \/ /\ Running
       /\ \E self \in alive : CallCalcBBoxOverflows(self)

SpecOverflow == InitOverflow /\ [][NextOverflow]_vars

\* What a class overrides: Clone or not, CopyChildren answering false or not.
Classes ==
    {[hasClone |-> TRUE, copyChildren |-> TRUE], [hasClone |-> TRUE, copyChildren |-> FALSE],
     [hasClone |-> FALSE, copyChildren |-> TRUE]}

\* The numbers the generator gives: the ids repeat or not.
RandomNumbers == {[i \in 1..NumNodes |-> NumNodes + i], [i \in 1..NumNodes |-> 1]}

\* Trees and detached objects built by appending, each object one of its
\* parent's children in the order of the numbers, and one Clone.
InitClone ==
    /\ \E p \in [Nodes -> Nodes \cup {NULL}] :
          /\ \A n \in Nodes : p[n] = NULL \/ p[n] < n
          /\ parent = [n \in Pool |-> IF n \in Nodes THEN p[n] ELSE NULL]
          /\ children = [n \in Pool |-> SelectSeq([m \in Nodes |-> m],
                                                  LAMBDA m : p[m] = n)]
    /\ alive = Nodes
    /\ \E c \in [Nodes -> Classes] : classOf = [n \in Pool |-> c[((n - 1) % NumNodes) + 1]]
    /\ id = [n \in Pool |-> IF n \in Nodes THEN n ELSE 0]
    /\ rng \in RandomNumbers
    /\ isRef \in {[n \in Pool |-> FALSE], [n \in Pool |-> n = 1]}
    /\ isModified \in {[n \in Pool |-> FALSE], [n \in Pool |-> n \in Nodes]}
    /\ fault = "none"
    /\ budget = 1
    /\ scn = NoScn
    /\ call = NoCall
    /\ editorial = {}
    /\ hidden = {}
    /\ functor = NoFunctor
    /\ log = <<>>
    /\ NoLists
    /\ NoFactory
    /\ NoLayout

NextClone == \E self \in Nodes : CallClone(self)

SpecClone == InitClone /\ [][NextClone]_vars

\* ------------------------------------------------------------ properties

\* The ancestors of n along the parent back-references.
RECURSIVE UpClosure(_)
UpClosure(S) ==
    LET T == S \cup ({parent[m] : m \in S} \ {NULL})
    IN  IF T = S THEN S ELSE UpClosure(T)

Ancestors(n) == IF parent[n] = NULL THEN {} ELSE UpClosure({parent[n]})

\* No live object is its own ancestor.
Acyclic == \A n \in alive : n \notin Ancestors(n)

\* The objects that list n in their child sequence.
ListedIn(n) == {p \in Nodes : n \in Listed(children[p])}

Called == budget' = budget - 1

DetachedExisting ==
    /\ Called
    /\ call'.op = "DetachChild"
    /\ Acyclic
    /\ call'.idx \in 0..(Len(children[call'.self]) - 1)
    /\ children[call'.self][call'.idx + 1] \in alive

C4_NoCycle == fault = "none" => Acyclic

\* The call that has just been made is an attach (AddChild, InsertBefore,
\* InsertAfter, ReplaceChild) of a child that has a parent.
AttachedParented ==
    /\ Called
    /\ call'.op \in {"AddChild", "InsertBefore", "InsertAfter", "ReplaceChild"}
    /\ parent[call'.arg] # NULL

\* No call that returns, the two explicit moves aside (MoveChildrenFrom and
\* MoveItselfTo relinquish first), turns a parent back-reference into
\* another object.
NoParentOverwritten ==
    (Called /\ fault' = "none" /\ call'.op \notin {"MoveChildrenFrom", "MoveItselfTo"})
        => \A n \in alive' : parent[n] # NULL => parent'[n] \in {parent[n], NULL}

\* An attach of a child that has a parent ends the process on an assertion;
\* an AddChild that the is-supported check rejects attaches nothing, returns
\* and changes nothing.
AttachParentedIsFatal ==
    AttachedParented =>
        \/ fault' = "assert"
        \/ call'.status = "rejected" /\ call'.op = "AddChild" /\ UNCHANGED treeVars

MissingIndex ==
    /\ Called
    /\ call'.op \in {"DetachChild", "Relinquish"}
    /\ call'.idx \notin 0..(Len(children[call'.self]) - 1)

Appended(p, c) ==
    /\ Called
    /\ fault' = "none"
    /\ \/ call'.op = "AddChild" /\ p = call'.self /\ c = call'.arg
       \/ call'.op = "MoveItselfTo" /\ p = call'.arg /\ c = call'.self
    /\ Len(children'[p]) = Len(children[p]) + 1

\* C7 (as stated): AddChild appends a child only if IsSupportedChild was
\* called and returned true, for every pair of classes.
C7_AppendOnlyIfSupported ==
    [][\A p \in Nodes, c \in Nodes : Appended(p, c) => call'.sup = "true"]_vars

\* C7 (amended): AddChild appends a child only if IsSupportedChild returned
\* true, or the child is a Staff and the parent a Section, the one pair for
\* which IsSupportedChild is not called.
C7_AppendOnlyIfSupportedOrExempt ==
    [][(Called /\ call'.op \in {"AddChild", "MoveItselfTo"}) =>
          \A p \in Nodes, c \in Nodes :
              Appended(p, c) =>
                  \/ call'.sup = "true"
                  \/ /\ call'.sup = "not_called"
                     /\ GetClassName(c) = "Staff"
                     /\ GetClassName(p) = "Section"]_vars

\* C7 witness: a Staff has been appended to a Section without the check.
C7_Witness ==
    /\ fault = "none"
    /\ call.op = "AddChild"
    /\ call.status = "ok"
    /\ call.sup = "not_called"
    /\ call.arg \in Listed(children[call.self])

\* C8: an AddChild that IsSupportedChild rejects returns without a fault and
\* leaves every child sequence, parent back-reference and dirty flag as it
\* was.
C8_RejectedAddChildIsNoOp ==
    [][(Called /\ call'.op = "AddChild" /\ call'.sup = "false") =>
        /\ fault' = "none"
        /\ call'.status = "rejected"
        /\ UNCHANGED treeVars]_vars

\* C8 witness: a child has been rejected by a parent whose dirty flag is
\* clear and which has a parent with a clear flag too.
C8_Witness ==
    /\ fault = "none"
    /\ call.op = "AddChild"
    /\ call.status = "rejected"
    /\ ~isModified[call.self]
    /\ parent[call.self] # NULL
    /\ ~isModified[parent[call.self]]

\* C9: an object is destroyed only through its current parent: whenever a
\* call destroys n, n's parent is an object that is not a reference object
\* and is either the receiver of the call or destroyed by the same call.
C9_OnlyOwnerDestroys ==
    [][(Called /\ fault' = "none") =>
        \A n \in alive \ alive' :
            /\ parent[n] # NULL
            /\ ~isRef[parent[n]]
            /\ parent[n] = call'.self \/ parent[n] \in alive \ alive']_vars

\* C10: once the entry callback has returned STOP on an object, the traversal
\* invokes no entry callback on any later object, forward or backward, with
\* or without exit callbacks.
C10_NoEntryAfterStop ==
    \A i \in 1..Len(log), j \in 1..Len(log) :
        (i < j /\ log[i].ev = "visit" /\ log[i].code = "STOP") => log[j].ev # "visit"

\* The entry callbacks of the last traversal, as positions of the log.
Visits == {i \in 1..Len(log) : log[i].ev = "visit"}

\* The sibling that follows x in the direction of the traversal, or NULL.
NextSibling(x) ==
    IF parent[x] = NULL THEN NULL
    ELSE LET order == IF functor.direction = BACKWARD THEN Reverse(children[parent[x]])
                      ELSE children[parent[x]]
             k == CHOOSE i \in 1..Len(order) : order[i] = x
         IN  IF k < Len(order) THEN order[k + 1] ELSE NULL

\* C11: when the entry callback returns SIBLINGS on x, no descendant of x is
\* visited, and if x is not the start it is the next sibling of x, if there is
\* one, that is entered next, with the code CONTINUE.
C11_SiblingsSkipsOnlySubtree ==
    \A i \in Visits :
        log[i].code = "SIBLINGS" =>
            LET x == log[i].node
                y == NextSibling(x)
            IN  /\ \A j \in Visits : x \notin Ancestors(log[j].node)
                /\ (x # call.self /\ y # NULL) =>
                       /\ \E j \in Visits : j > i
                       /\ LET j == CHOOSE k \in Visits :
                                       k > i /\ \A m \in Visits : m > i => k <= m
                          IN  log[j].node = y /\ log[j].pre = "CONTINUE"

\* C11 witness: SIBLINGS was returned on a child of the start that has a next
\* sibling, which was entered.
C11_Witness ==
    \E i \in Visits :
        /\ log[i].code = "SIBLINGS"
        /\ log[i].node # call.self
        /\ NextSibling(log[i].node) # NULL
        /\ \E j \in Visits : j > i /\ log[j].node = NextSibling(log[i].node)

\* The objects below n, n included.
Subtree(n) == {m \in Nodes : m = n \/ n \in Ancestors(m)}

\* The objects on the path from start down to n, both included.
Path(start, n) == {m \in Subtree(start) : m = n \/ m \in Ancestors(n)}

\* The number of entry callbacks on n in the last traversal.
VisitCount(n) == Cardinality({i \in Visits : log[i].node = n})

\* A traversal with no filter, the visibility filter off or nothing hidden,
\* and a callback that returns CONTINUE on every object has been made.
Unfiltered ==
    /\ call.op = "Process"
    /\ ~functor.filters.on
    /\ ~functor.visibleOnly \/ hidden = {}
    /\ functor.entry = Always("CONTINUE")

\* C12: a traversal of unlimited depth (-1) with no filter and a callback that
\* always returns CONTINUE visits every object of the subtree of the start
\* exactly once, and no other object, editorial elements or not.
C12_UnlimitedVisitsSubtreeOnce ==
    (Unfiltered /\ call.idx = -1) =>
        \A n \in Nodes : VisitCount(n) = IF n \in Subtree(call.self) THEN 1 ELSE 0

\* C13: in a tree without editorial elements, a traversal of depth d >= 0
\* visits exactly the objects at most d levels below the start, each once.
C13_DepthLimitsLevels ==
    (Unfiltered /\ call.idx >= 0 /\ editorial = {}) =>
        \A n \in Nodes :
            VisitCount(n) = IF /\ n \in Subtree(call.self)
                              /\ Cardinality(Path(call.self, n)) - 1 <= call.idx
                           THEN 1 ELSE 0

\* C13 witness: a traversal of depth 1 from an object that has a grandchild.
C13_Witness ==
    /\ Unfiltered /\ call.idx = 1 /\ editorial = {}
    /\ \E n \in Subtree(call.self) : Cardinality(Path(call.self, n)) = 3
    /\ \E n \in Nodes : parent[n] = call.self /\ VisitCount(n) = 1

\* C14: editorial elements do not use up depth: with a depth d >= 0, an object
\* below the start that is not an editorial element is visited iff at most d
\* objects on the path from the start to its parent are not editorial.
C14_WrappersCostNoDepth ==
    (Unfiltered /\ call.idx >= 0) =>
        \A n \in Subtree(call.self) \ ({call.self} \cup editorial) :
            VisitCount(n) > 0 <=>
                Cardinality(Path(call.self, parent[n]) \ editorial) <= call.idx

\* C14 witness: with depth 1, an object two levels below the start was visited
\* through an editorial parent.
C14_Witness ==
    /\ Unfiltered /\ call.idx = 1
    /\ \E n \in Subtree(call.self) \ editorial :
          /\ Cardinality(Path(call.self, n)) = 3
          /\ parent[n] \in editorial
          /\ VisitCount(n) = 1

\* The children of p in the order in which a log has them visited.
VisitedChildren(lg, p) ==
    LET kids == SelectSeq(lg, LAMBDA e : e.ev = "visit" /\ parent[e.node] = p)
    IN  [i \in 1..Len(kids) |-> kids[i].node]

\* The log of the last traversal had it been made in the other direction.
OtherDirection ==
    Process([code |-> "CONTINUE", log |-> <<>>, score |-> currentScore],
            [functor EXCEPT !.code = "CONTINUE",
                            !.direction = IF @ = FORWARD THEN BACKWARD ELSE FORWARD],
            call.self, call.idx, FALSE).log

\* C15: for the same tree, depth and filters and a callback that returns
\* CONTINUE, the backward traversal visits the children of every object in
\* the exact reverse of the forward order, and both visit every object the
\* same number of times.
C15_BackwardMirrorsForward ==
    (call.op = "Process" /\ functor.entry = Always("CONTINUE")) =>
        LET other == OtherDirection
        IN  /\ \A p \in Nodes :
                  LET a == VisitedChildren(log, p)
                      b == VisitedChildren(other, p)
                  IN  /\ Len(a) = Len(b)
                      /\ \A i \in 1..Len(a) : a[i] = b[Len(b) + 1 - i]
            /\ \A n \in Nodes :
                  VisitCount(n) = Cardinality({i \in 1..Len(other) :
                                      other[i].ev = "visit" /\ other[i].node = n})

\* C15 witness: a traversal has visited two children of one object.
C15_Witness ==
    /\ call.op = "Process" /\ functor.entry = Always("CONTINUE")
    /\ \E p \in Nodes : Len(VisitedChildren(log, p)) >= 2

\* The call that has just been made is a read of a cached list, and it has
\* returned.
ListRead == Called /\ call'.op \in ListReads /\ fault' = "none"

\* The call before was a structural change of the child sequence of an
\* object of the subtree of n, in a tree without a cycle: a child appended,
\* inserted, detached or relinquished, or the children sorted.
ChangedBelow(n) ==
    /\ fault = "none"
    /\ Acyclic
    /\ call.self \in Subtree(n)
    /\ \/ call.op \in {"AddChild", "InsertBefore"} /\ call.status = "ok"
       \/ call.op \in {"InsertChild", "SortChildren"}
       \/ call.op \in {"DetachChild", "Relinquish"} /\ call.ret # NULL

\* C16: the second of two reads of the list of an object with no call
\* between them does not rebuild the list, and the read that follows a
\* structural change in the subtree of the object rebuilds it.
C16_RebuildIffChanged ==
    [][ListRead =>
        /\ (call.op \in ListReads /\ call.self = call'.self) => call'.status = "cached"
        /\ ChangedBelow(call'.self) => call'.status = "rebuilt"]_vars

\* The position of x in a sequence that holds it.
Pos(seq, x) == CHOOSE i \in 1..Len(seq) : seq[i] = x

\* The child of c that is a or an ancestor of a.
Branch(c, a) == CHOOSE k \in Listed(children[c]) : k = a \/ k \in Ancestors(a)

\* a comes before b in document order (pre-order): a is an ancestor of b, or
\* below their lowest common ancestor a is under an earlier child than b.
DocBefore(a, b) ==
    IF a \in Ancestors(b) THEN TRUE
    ELSE IF a = b \/ b \in Ancestors(a) THEN FALSE
    ELSE LET shared == Ancestors(a) \cap Ancestors(b)
             c == CHOOSE x \in shared : \A y \in shared : y = x \/ y \in Ancestors(x)
         IN  Pos(children[c], Branch(c, a)) < Pos(children[c], Branch(c, b))

\* A sequence holds exactly the objects of S, each once, in document order.
InDocOrder(seq, S) ==
    /\ Listed(seq) = S
    /\ \A i \in 1..Len(seq), j \in 1..Len(seq) : i < j => DocBefore(seq[i], seq[j])

\* A read has just rebuilt the list of call.self.
Rebuilt == call.op \in ListReads /\ call.status = "rebuilt"

Ends == {i \in 1..Len(log) : log[i].ev = "end"}

\* The position of the one write-start and the one write-end of n.
VisitPos(n) == CHOOSE i \in Visits : log[i].node = n
EndPos(n) == CHOOSE i \in Ends : log[i].node = n

\* SaveObject has been called on an object that is not an editorial element
\* with an output none of whose writes fails.
SavedAll ==
    /\ call.op = "SaveObject"
    /\ call.self \notin editorial
    /\ functor.entry = Always("CONTINUE")
    /\ functor.exit = Always("CONTINUE")

C19_NoWriteStartAfterFailure ==
    call.op = "SaveObject" =>
        \A i \in 1..Len(log), j \in Visits : log[i].code = "STOP" => j <= i

\* C20: Create with a name under which nothing has been registered returns
\* NULL, without ending the process and without a change of the registry or
\* a new object; with a registered name it returns a new object, built by the
\* constructor last registered under the name, and leaves the registry as
\* it was.
C20_CreateUsesLatestCtor ==
    [][(Called /\ call'.op = "Create") =>
        /\ fault' = "none"
        /\ UNCHANGED <<ctors, classIds>>
        /\ IF call'.name \notin DOMAIN latest
           THEN call'.ret = NULL /\ alive' = alive
           ELSE /\ call'.ret \in alive' \ alive
                /\ builtBy'[call'.ret] = [name |-> call'.name, ctor |-> latest[call'.name]]]_vars

\* C20 witness: Create has returned an object under a name under which an
\* earlier object was built by another constructor.
C20_Witness ==
    /\ call.op = "Create"
    /\ call.ret # NULL
    /\ builtBy[call.ret].ctor = latest[call.name]
    /\ \E m \in DOMAIN builtBy \ {call.ret} :
          /\ builtBy[m].name = call.name
          /\ builtBy[m].ctor # builtBy[call.ret].ctor

\* An overflow pass has run to its end.
PassDone == call.op = "CalcBBoxOverflows" /\ fault = "none"

\* The objects that contribute to the overflow of some alignment.
Contributors ==
    UNION {alignments[a].bboxAbove \cup alignments[a].bboxBelow : a \in DOMAIN alignments}

\* The callback was invoked on n.
Entered(n) == \E i \in 1..Len(passLog) : passLog[i].this.id = n

\* Half the line width of the staff of alignment a.
Threshold(a) == ((LineWidth * alignments[a].staffSize) \div 100) \div 2

\* The score Root -> Staff (visible) -> Layer -> [NoteA, Beam] with NoteA
\* drawn beyond the threshold and a beam that is not cross-staff while its
\* content is.
Scenario ==
    /\ alive = 1..5
    /\ children[1] = <<2>> /\ children[2] = <<3>> /\ children[3] = <<4, 5>>
    /\ attrs[1].classId = "MEASURE"
    /\ attrs[2].classId = "STAFF" /\ attrs[2].visible
    /\ attrs[3].classId = "LAYER"
    /\ attrs[4].classId = "NOTE" /\ attrs[4].hasSelfBB
    /\ attrs[4].overflowAbove > Threshold(2)
    /\ attrs[5].classId = "BEAM" /\ attrs[5].hasSelfBB
    /\ attrs[5].crossStaffContent /\ ~attrs[5].crossStaff

\* C21: in the pass over Root -> Staff (visible) -> Layer -> [NoteA, Beam] the
\* overflow of NoteA is recorded in the alignment of the staff and the beam,
\* not cross-staff with cross-staff content, contributes nothing; and a drawn
\* beam with cross-staff content that the pass entered contributes to the
\* overflow if and only if the beam itself is cross-staff.
C21_BeamCountsIffCrossStaff ==
    PassDone =>
        /\ (Scenario /\ call.self = 1) =>
               /\ 4 \in alignments[2].bboxAbove
               /\ alignments[2].overflowAbove = attrs[4].overflowAbove
               /\ 5 \notin Contributors
        /\ \A b \in alive :
               (/\ attrs[b].classId = "BEAM" /\ attrs[b].crossStaffContent
                /\ attrs[b].hasSelfBB /\ Entered(b)
                /\ \E a \in DOMAIN alignments : a \in Spine(b)
                       /\ (attrs[b].overflowAbove > Threshold(a)
                           \/ attrs[b].overflowBelow > Threshold(a)))
               => (b \in Contributors <=> attrs[b].crossStaff)

\* The pass has run over the score of the scenario from its root, and NoteA
\* alone is recorded above the staff.
C21_Witness ==
    /\ PassDone /\ Scenario /\ call.self = 1
    /\ alignments[2].bboxAbove = {4}

\* What alignment record al holds for a side: the overflow, the contributing
\* objects and the overflow of the clef of the system.
SideOf(al, side) ==
    IF side = "Above"
    THEN <<al.overflowAbove, al.bboxAbove, al.scoreDefClefOverflowAbove>>
    ELSE <<al.overflowBelow, al.bboxBelow, al.scoreDefClefOverflowBelow>>

\* C22: a call of the callback on a layer element changes what an alignment
\* holds above (below) only if the overflow of the element above (below) is
\* strictly greater than half the line width of the staff of that alignment,
\* the half taken by integer division; at or under it the overflow values and
\* the contributing sets of the alignment stay as they were.
C22_RecordOnlyBeyondHalfLineWidth ==
    PassDone =>
        \A i \in 1..Len(passLog) :
            LET e == passLog[i]
            IN  ClassKind(e.this.classId) = "LayerElement" =>
                    \A a \in DOMAIN alignments :
                        /\ SideOf(e.after[a], "Above") # SideOf(e.before[a], "Above")
                               => e.this.overflowAbove > Threshold(a)
                        /\ SideOf(e.after[a], "Below") # SideOf(e.before[a], "Below")
                               => e.this.overflowBelow > Threshold(a)

\* An element whose overflow above is beyond the threshold and whose overflow
\* below is at it has been recorded above and not below.
C22_Witness ==
    /\ PassDone
    /\ \E i \in 1..Len(passLog), a \in DOMAIN alignments :
          LET e == passLog[i]
          IN  /\ e.this.hasSelfBB
              /\ e.this.overflowAbove > Threshold(a)
              /\ e.this.overflowBelow = Threshold(a)
              /\ e.this.id \in e.after[a].bboxAbove \ e.before[a].bboxAbove
              /\ SideOf(e.after[a], "Below") = SideOf(e.before[a], "Below")

\* The visible staff that call i of the pass, or the last call before it on a
\* visible staff, entered; NULL when there is none.
RECURSIVE LastVisibleStaff(_)
LastVisibleStaff(i) ==
    IF i = 0 THEN NULL
    ELSE IF passLog[i].this.classId = "STAFF" /\ passLog[i].this.visible
    THEN passLog[i].this.id
    ELSE LastVisibleStaff(i - 1)

\* C23: the callback returns SIBLINGS on a staff that is not visible, leaves
\* the alignments and the alignment of the context as they were, and is
\* invoked on no object below that staff; after every call the context is
\* bound to the alignment of the visible staff entered last.
C23_StaffBindsContext ==
    PassDone =>
        /\ \A i \in 1..Len(passLog) : passLog[i].bound = LastVisibleStaff(i)
        /\ \A i \in 1..Len(passLog) :
               LET e == passLog[i]
               IN  (e.this.classId = "STAFF" /\ ~e.this.visible) =>
                       /\ e.ret = "SIBLINGS"
                       /\ e.after = e.before
                       /\ \A j \in 1..Len(passLog) :
                              e.this.id \notin Spine(passLog[j].this.up)

\* A pass has entered a visible staff and then a staff that is not visible
\* and has a layer with a drawn element.
C23_Witness ==
    /\ PassDone
    /\ \E i \in 1..Len(passLog), j \in 1..Len(passLog) :
          /\ i < j
          /\ passLog[i].this.classId = "STAFF" /\ passLog[i].this.visible
          /\ passLog[j].this.classId = "STAFF" /\ ~passLog[j].this.visible
          /\ passLog[j].bound = passLog[i].this.id
          /\ \E n \in alive : /\ passLog[j].this.id \in Spine(parent[n])
                               /\ attrs[n].hasSelfBB
                               /\ ClassKind(attrs[n].classId) = "LayerElement"

\* C24: a clone is a new object with no parent, the modified flag set and the
\* id the generator gave next; when the children are copied its children are
\* new objects, one per child of the original and of its class, in the same
\* order, each with the clone as its parent; the parents and the children of
\* the objects that existed before are as they were.
C24_CloneIsFreshDeepCopy ==
    [][(Called /\ call'.op = "Clone" /\ fault' = "none") =>
          LET object == call'.self
              new == call'.ret
          IN  /\ new \in alive' \ alive
              /\ parent'[new] = NULL
              /\ isModified'[new]
              /\ id'[new] = Head(rng)
              /\ classOf[object].copyChildren =>
                     /\ Len(children'[new]) = Len(children[object])
                     /\ \A i \in 1..Len(children[object]) :
                            LET c == children'[new][i]
                            IN  /\ c \in alive' \ alive
                                /\ parent'[c] = new
                                /\ classOf'[c] = classOf[children[object][i]]
                                /\ \A j \in 1..Len(children[object]) :
                                       j # i => children'[new][j] # c
              /\ \A n \in alive :
                     parent'[n] = parent[n] /\ children'[n] = children[n]]_vars

\* An object with two children of different classes has been cloned with
\* its children.
C24_Witness ==
    /\ call.op = "Clone" /\ fault = "none"
    /\ Len(children[call.ret]) = 2
    /\ classOf[children[call.self][1]] # classOf[children[call.self][2]]

\* Modify(true) has returned on call'.self.
Modified == Called /\ call'.op = "Modify" /\ call'.idx = 1 /\ fault' = "none"

\* C25: after Modify() on an object, the object and every ancestor of it up
\* to the root are modified, whatever the flags were before.
C25_ModifyMarksPathToRoot ==
    [][Modified =>
          \A m \in {call'.self} \cup Ancestors(call'.self) : isModified'[m]]_vars

\* Modify() has returned on an object with a parent and a grandparent.
C25_Witness ==
    /\ call.op = "Modify" /\ call.idx = 1 /\ fault = "none"
    /\ parent[call.self] # NULL /\ parent[parent[call.self]] # NULL
    /\ \A m \in {call.self} \cup Ancestors(call.self) : isModified[m]

\* The ancestors of n above an ancestor of n that is modified already.
AboveDirty(n) ==
    {a \in Ancestors(n) : \E d \in Ancestors(n) : isModified[d] /\ a \in Ancestors(d)}

\* C26 as stated: Modify() leaves the flag of every ancestor above an
\* ancestor that is modified already as it was.
C26_ModifyStopsAtDirtyAncestor ==
    [][Modified => \A a \in AboveDirty(call'.self) : isModified'[a] = isModified[a]]_vars

\* C26: Modify() does not stop at an ancestor that is modified already: it
\* sets the flag of every ancestor above it as well, and it leaves the flag
\* of every object that is neither the object nor one of its ancestors as it
\* was.
C26_ModifyPassesDirtyAncestor ==
    [][Modified =>
          /\ \A a \in AboveDirty(call'.self) : isModified'[a]
          /\ \A m \in alive \ ({call'.self} \cup Ancestors(call'.self)) :
                 isModified'[m] = isModified[m]]_vars

\* Modify() has returned on an object whose parent has a parent, and the
\* parent of its parent is modified.
C26_Witness ==
    /\ call.op = "Modify" /\ call.idx = 1 /\ fault = "none"
    /\ parent[call.self] # NULL /\ parent[parent[call.self]] # NULL
    /\ isModified[parent[parent[call.self]]]

\* The depth the traversal has at n lets it go on to the children of n: the
\* objects from the start to n that are not editorial elements have not used
\* it up.
DepthLeft(n) == Cardinality(Path(call.self, n) \ editorial) # call.idx + 1

\* C27: with the visibility filter on, a hidden object is visited like any
\* other object and no object below it is visited; with the filter off the
\* children of a hidden object are visited like those of any other object.
\* (The callback returns CONTINUE; an object below the start is visited iff
\* its parent was visited, has depth left and, with the filter on, is not
\* hidden.)
C27_HiddenVisitedChildrenSkipped ==
    (call.op = "Process" /\ functor.entry = Always("CONTINUE") /\ ~functor.filters.on) =>
        \A n \in Nodes :
            VisitCount(n) =
                IF n = call.self THEN 1
                ELSE IF /\ n \in Subtree(call.self)
                        /\ VisitCount(parent[n]) = 1
                        /\ DepthLeft(parent[n])
                        /\ ~(functor.visibleOnly /\ parent[n] \in hidden)
                THEN 1 ELSE 0

\* C27 witness: with the filter on, a hidden child of the start that has a
\* child was visited in a traversal of unlimited depth, and its child was not.
C27_Witness ==
    /\ call.op = "Process" /\ functor.visibleOnly /\ call.idx = -1
    /\ \E h \in hidden \ editorial :
          /\ parent[h] = call.self /\ call.self \notin editorial
          /\ VisitCount(h) = 1
          /\ \E c \in Nodes : parent[c] = h /\ VisitCount(c) = 0

\* The number of exit callbacks on n in the last traversal.
EndCount(n) == Cardinality({i \in Ends : log[i].node = n})

\* C28: with filters set, the start is visited whether the filters accept it
\* or not; an object below the start is visited iff the filters accept it and
\* its parent was visited and has depth left, so that nothing below a
\* rejected object is visited; and an object that is not visited gets no exit
\* callback.
C28_FiltersGateChildren ==
    (call.op = "Process" /\ functor.filters.on) =>
        \A n \in Nodes :
            /\ VisitCount(n) =
                   IF n = call.self THEN 1
                   ELSE IF /\ n \in Subtree(call.self)
                           /\ VisitCount(parent[n]) = 1
                           /\ DepthLeft(parent[n])
                           /\ n \in functor.filters.pass
                   THEN 1 ELSE 0
            /\ VisitCount(n) = 0 => EndCount(n) = 0

\* C28 witness: a traversal with exit callbacks from a start the filters
\* reject has visited the start and not its rejected child, nor the accepted
\* child of that child.
C28_Witness ==
    /\ call.op = "Process" /\ functor.filters.on /\ functor.hasEnd /\ call.idx = -1
    /\ call.self \notin functor.filters.pass
    /\ VisitCount(call.self) = 1 /\ EndCount(call.self) = 1
    /\ \E c \in Nodes \ functor.filters.pass, g \in functor.filters.pass :
          /\ parent[c] = call.self /\ parent[g] = c
          /\ VisitCount(c) = 0 /\ VisitCount(g) = 0

\* The last traversal was told to skip the start.
SkipFirst == call.op = "Process" /\ call.arg2 = 1

\* The log of the traversal f makes from the same start to the same depth
\* when it is not told to skip the start, without the callbacks on the start.
BelowStartWithoutSkipFirst(f) ==
    SelectSeq(Process([code |-> "CONTINUE", log |-> <<>>, score |-> currentScore], [f EXCEPT !.code = "CONTINUE"],
                      call.self, call.idx, FALSE).log,
              LAMBDA e : e.node # call.self)

\* C29 as stated: a traversal told to skip the start makes no callback on the
\* start, and the callbacks below the start are those of the same traversal
\* not told to skip it.
C29_SkipFirstSameBelow ==
    SkipFirst =>
        /\ \A i \in 1..Len(log) : log[i].node # call.self
        /\ log = BelowStartWithoutSkipFirst(functor)

\* C29: a traversal told to skip the start makes no callback on the start,
\* and the callbacks below the start are those of the traversal not told to
\* skip it whose entry callback returns CONTINUE on the start.
C29_SkipFirstSameBelowContinue ==
    SkipFirst =>
        /\ \A i \in 1..Len(log) : log[i].node # call.self
        /\ log = BelowStartWithoutSkipFirst([functor EXCEPT !.entry[call.self] = "CONTINUE"])

\* C29 witness: a traversal with exit callbacks, told to skip the start, has
\* entered and left a child and a grandchild of the start.
C29_Witness ==
    /\ SkipFirst /\ functor.hasEnd
    /\ \E c \in Nodes, g \in Nodes :
          /\ parent[c] = call.self /\ parent[g] = c
          /\ VisitCount(c) = 1 /\ VisitCount(g) = 1
          /\ EndCount(c) = 1 /\ EndCount(g) = 1
    /\ VisitCount(call.self) = 0 /\ EndCount(call.self) = 0

\* C30: in a traversal with exit callbacks, every object whose entry callback
\* was invoked gets its exit callback invoked exactly once, after its own
\* entry callback and after every callback on an object below it, whatever
\* the entry callback returned and whatever depth was left.
C30_EveryEntryHasExit ==
    (call.op = "Process" /\ functor.hasEnd) =>
        \A n \in Nodes :
            VisitCount(n) > 0 =>
                /\ EndCount(n) = 1
                /\ \A i \in 1..Len(log) :
                       (log[i].node \in Subtree(n) /\ i # EndPos(n)) => i < EndPos(n)

\* Every object that was entered, on which the entry callback did not return
\* SIBLINGS and at which depth was left, has been left once, after every
\* callback on an object below it.
ExitUnlessCutShort ==
    (call.op = "Process" /\ functor.hasEnd) =>
        \A n \in Nodes :
            (/\ VisitCount(n) > 0
             /\ functor.entry[n] # "SIBLINGS"
             /\ DepthLeft(n)) =>
                /\ EndCount(n) = 1
                /\ \A i \in 1..Len(log) :
                       (log[i].node \in Subtree(n) /\ i # EndPos(n)) => i < EndPos(n)

\* Call i of the pass was on a clef whose role is that of the clef of the
\* system.
OnSystemClef(i) ==
    passLog[i].this.classId = "CLEF" /\ passLog[i].this.scoreDefRole = "SCOREDEF_SYSTEM"

\* The greater of two overflows.
Max(a, b) == IF a < b THEN b ELSE a

\* C31: a call of the callback on the clef of the system leaves the overflow
\* above and below and the contributing sets of every alignment as they were,
\* the clef is in no contributing set after the pass, and where its overflow
\* is beyond the threshold of the alignment of its staff the accumulator of
\* the clef of the system on that side holds at least that overflow.
C31_SystemClefOnlyInOwnAccumulators ==
    PassDone =>
        \A i \in 1..Len(passLog) :
            LET e == passLog[i]
                staff == GetFirstAncestor(e.this.up, "STAFF")
            IN  OnSystemClef(i) =>
                    /\ \A a \in DOMAIN alignments :
                           /\ e.after[a].overflowAbove = e.before[a].overflowAbove
                           /\ e.after[a].overflowBelow = e.before[a].overflowBelow
                           /\ e.after[a].bboxAbove = e.before[a].bboxAbove
                           /\ e.after[a].bboxBelow = e.before[a].bboxBelow
                           /\ a # staff =>
                                  e.after[a] = e.before[a]
                    /\ e.this.id \notin Contributors
                    /\ (staff # NULL /\ e.this.hasSelfBB) =>
                           /\ e.after[staff].scoreDefClefOverflowAbove =
                                  IF e.this.overflowAbove > Threshold(staff)
                                  THEN Max(e.before[staff].scoreDefClefOverflowAbove,
                                           e.this.overflowAbove)
                                  ELSE e.before[staff].scoreDefClefOverflowAbove
                           /\ e.after[staff].scoreDefClefOverflowBelow =
                                  IF e.this.overflowBelow > Threshold(staff)
                                  THEN Max(e.before[staff].scoreDefClefOverflowBelow,
                                           e.this.overflowBelow)
                                  ELSE e.before[staff].scoreDefClefOverflowBelow

\* The pass has recorded the clef of the system, whose overflow above is
\* beyond the threshold, in the accumulator of the alignment of its staff,
\* and another element in the contributing set of an alignment.
C31_Witness ==
    /\ PassDone
    /\ \E i \in 1..Len(passLog) :
          LET e == passLog[i]
              staff == GetFirstAncestor(e.this.up, "STAFF")
          IN  /\ OnSystemClef(i)
              /\ staff # NULL
              /\ e.this.overflowAbove > Threshold(staff)
              /\ e.after[staff].scoreDefClefOverflowAbove = e.this.overflowAbove
              /\ e.before[staff].scoreDefClefOverflowAbove = 0
    /\ \E a \in DOMAIN alignments : alignments[a].bboxAbove # {}

\* The beams above the note or chord n.
BeamsAbove(n) == {b \in Spine(parent[n]) : attrs[b].classId = "BEAM"}

\* The stem of the cross-staff note or chord n is to contribute nothing: n is
\* in a beam that is not cross-staff, or in no beam and in a beam span.
StemExcluded(n) ==
    /\ attrs[n].crossStaff
    /\ \/ \E b \in BeamsAbove(n) : ~attrs[b].crossStaff
       \/ BeamsAbove(n) = {} /\ attrs[n].isInBeamSpan

\* C32: a call of the callback on a drawn stem leaves every alignment as it
\* was and the stem out of the contributing sets when the note of the stem is
\* cross-staff and in a beam that is not cross-staff, or cross-staff, in no
\* beam and in a beam span; on every other drawn stem the call records the
\* overflow of the stem, on each side where it is beyond the threshold, in the
\* alignment of its staff, like that of any other layer element.
C32_StemOfCrossStaffNote ==
    PassDone =>
        \A i \in 1..Len(passLog) :
            LET e == passLog[i]
                staff == GetFirstAncestor(e.this.up, "STAFF")
            IN  (e.this.classId = "STEM" /\ e.this.hasSelfBB /\ staff # NULL) =>
                    IF StemExcluded(e.this.up)
                    THEN e.after = e.before /\ e.this.id \notin Contributors
                    ELSE /\ e.this.overflowAbove > Threshold(staff) =>
                                /\ e.this.id \in e.after[staff].bboxAbove
                                /\ e.after[staff].overflowAbove =
                                       Max(e.before[staff].overflowAbove, e.this.overflowAbove)
                         /\ e.this.overflowBelow > Threshold(staff) =>
                                /\ e.this.id \in e.after[staff].bboxBelow
                                /\ e.after[staff].overflowBelow =
                                       Max(e.before[staff].overflowBelow, e.this.overflowBelow)

\* The pass has entered the drawn stem of a cross-staff note in a beam that
\* is not cross-staff, and the stem contributes nothing.
C32_Witness ==
    /\ PassDone
    /\ \E i \in 1..Len(passLog) :
          LET e == passLog[i]
          IN  /\ e.this.classId = "STEM" /\ e.this.hasSelfBB
              /\ attrs[e.this.up].crossStaff
              /\ \E b \in BeamsAbove(e.this.up) : ~attrs[b].crossStaff
              /\ e.this.id \notin Contributors

\* The score that a traversal in direction makes the current one when it
\* enters n, or NULL when it makes none: n itself, a score, forward; the
\* start of n, the end marker of a page milestone whose start is a score,
\* backward.
MadeCurrent(direction, n) ==
    IF direction = FORWARD
    THEN IF attrs[n].classId = "SCORE" THEN n ELSE NULL
    ELSE IF attrs[n].classId = "PAGE_MILESTONE_END" /\ attrs[n].start # NULL
            /\ attrs[attrs[n].start].classId = "SCORE"
         THEN attrs[n].start
         ELSE NULL

\* The current score once the first k objects of entered have been entered,
\* in a document whose current score was before.
RECURSIVE CurrentAfter(_, _, _, _)
CurrentAfter(entered, k, before, direction) ==
    IF k = 0 THEN before
    ELSE IF MadeCurrent(direction, entered[k]) # NULL
    THEN MadeCurrent(direction, entered[k])
    ELSE CurrentAfter(entered, k - 1, before, direction)

\* C33: at every callback of a traversal, and after it, the current score is
\* the score made current by the object entered last that makes one current
\* (the object of the callback included), or the score that was current
\* before the traversal if no such object was entered yet.  The objects
\* entered are the start and the objects visited.
C33_CurrentScoreFollowsTraversal ==
    [][(Called /\ call'.op = "Process") =>
          LET skipped == IF call'.arg2 = 1 THEN <<call'.self>> ELSE <<>>
              entered == skipped \o [i \in 1..Len(log') |-> log'[i].node]
          IN  /\ \A i \in 1..Len(log') :
                     log'[i].score = CurrentAfter(entered, i + Len(skipped), currentScore,
                                                  functor.direction)
              /\ currentScore' = CurrentAfter(entered, Len(entered), currentScore,
                                              functor.direction)]_vars

\* A forward traversal has visited a score, then an object that is no score
\* with that score the current one, then another score, which was the current
\* one at its own callback.
C33_Witness ==
    /\ call.op = "Process" /\ functor.direction = FORWARD
    /\ \E i \in 1..Len(log), j \in 1..Len(log), k \in 1..Len(log) :
          /\ i < j /\ j < k
          /\ attrs[log[i].node].classId = "SCORE" /\ log[i].score = log[i].node
          /\ attrs[log[j].node].classId # "SCORE" /\ log[j].score = log[i].node
          /\ attrs[log[k].node].classId = "SCORE" /\ log[k].score = log[k].node

\* x is in seq exactly once.
Once(seq, x) == Cardinality({i \in DOMAIN seq : seq[i] = x}) = 1

\* x comes before y in seq.
Precedes(seq, x, y) == \E i \in DOMAIN seq, j \in DOMAIN seq : i < j /\ seq[i] = x /\ seq[j] = y

\* Two objects that are entries of both sequences (once in each) are in the
\* same order in both.
SameOrder(old, new, x, y) ==
    (Once(old, x) /\ Once(old, y) /\ Once(new, x) /\ Once(new, y) /\ x # y) =>
        (Precedes(new, x, y) <=> Precedes(old, x, y))

\* C34: a call that returns leaves any two children that stay in the child
\* sequence of an object in their order, unless it is SortChildren on that
\* object; SortChildren keeps every child, as many times as it was in the
\* sequence, and leaves two children the comparison treats as equal in their
\* order.
C34_ChildOrderStable ==
    [][(Called /\ fault' = "none") =>
          \A p \in alive \cap alive' :
              IF call'.op = "SortChildren" /\ call'.self = p
              THEN /\ Len(children'[p]) = Len(children[p])
                   /\ \A x \in alive : Count(children'[p], x) = Count(children[p], x)
                   /\ \A x \in Listed(children[p]), y \in Listed(children[p]) :
                          (call'.idx = 2 /\ x \div 2 = y \div 2) =>
                              SameOrder(children[p], children'[p], x, y)
              ELSE \A x \in Listed(children[p]), y \in Listed(children[p]) :
                       SameOrder(children[p], children'[p], x, y)]_vars

\* SortChildren with the comparison by pair has returned on an object whose
\* children are now 3, 5 and 4, in this order: 5 and 4 are equal for the
\* comparison, and 3 comes before them.
C34_Witness ==
    /\ call.op = "SortChildren" /\ call.idx = 2 /\ fault = "none"
    /\ children[call.self] = <<3, 5, 4>>

\* The entries of seq that satisfy keep, in their order.
RECURSIVE Kept(_, _)
Kept(seq, keep) ==
    IF seq = <<>> THEN <<>>
    ELSE IF Head(seq) \in keep THEN <<Head(seq)>> \o Kept(Tail(seq), keep)
    ELSE Kept(Tail(seq), keep)

\* C35: Relinquish(idx) that returns changes nothing but the parent of the
\* child at idx, which becomes null: every child sequence, the one of the
\* former parent included, is as before, entry by entry.  A call of
\* ClearRelinquishedChildren that returns leaves in the sequence of the object,
\* in their order, exactly the entries whose parent is the object, and changes
\* nothing else.
C35_RelinquishKeepsEntry ==
    [][(Called /\ fault' = "none") =>
          /\ call'.op = "Relinquish" =>
                /\ children' = children
                /\ alive' = alive /\ isRef' = isRef /\ isModified' = isModified
                /\ IF call'.idx < Len(children[call'.self])
                   THEN parent' = [parent EXCEPT ![children[call'.self][call'.idx + 1]] = NULL]
                   ELSE parent' = parent
          /\ call'.op = "ClearRelinquishedChildren" =>
                /\ children' = [children EXCEPT ![call'.self] =
                                    Kept(@, {n \in alive : parent[n] = call'.self})]
                /\ parent' = parent
                /\ alive' = alive /\ isRef' = isRef /\ isModified' = isModified]_vars

\* Relinquish(1) has returned on an object with three entries: the second one
\* has no parent and is still the second entry, between two children of the
\* object.
C35_Witness ==
    /\ call.op = "Relinquish" /\ call.idx = 1 /\ fault = "none"
    /\ Len(children[call.self]) = 3
    /\ parent[children[call.self][2]] = NULL
    /\ parent[children[call.self][1]] = call.self
    /\ parent[children[call.self][3]] = call.self

\* MoveChildrenFrom has returned on the object self with a source that is
\* another object.
Moved == Called /\ fault' = "none" /\ call'.op = "MoveChildrenFrom" /\ call'.self # call'.arg

\* The entries of the source are the entries of the target from position at
\* (counted from 0) on, in their order; the entries the target had are the
\* other entries, in their order; the parent of every entry of the source is
\* the target.
MovedTo(at) ==
    LET target == call'.self
        source == call'.arg
    IN  /\ Len(children'[target]) = Len(children[target]) + Len(children[source])
        /\ \A i \in DOMAIN children[source] :
              /\ at + i \in DOMAIN children'[target]
              /\ children'[target][at + i] = children[source][i]
              /\ parent'[children[source][i]] = target
        /\ Kept(children'[target], Listed(children[target])) = children[target]

\* C36 as stated: after MoveChildrenFrom(source, idx, allowTypeChange) with
\* another object as source, the entries of the source are children of the
\* target, in their order, at positions idx, idx + 1, ... when idx is not -1
\* and at the end when idx is -1, the former children of the target in their
\* order around them.
C36_MovedToIdx ==
    [][Moved => MovedTo(IF call'.idx = -1 THEN Len(children[call'.self]) ELSE call'.idx)]_vars

\* C36: after MoveChildrenFrom(source, idx, allowTypeChange) with another
\* object as source, the entries of the source are children of the target, in
\* their order, at positions idx, idx + 1, ... when idx is from 0 to the number
\* of children the target had, and at the end when idx is -1 or greater than
\* that number; the former children of the target are in their order around
\* them.
C36_MovedToIdxOrEnd ==
    [][Moved => MovedTo(IF call'.idx = -1 \/ call'.idx > Len(children[call'.self])
                        THEN Len(children[call'.self]) ELSE call'.idx)]_vars

\* MoveChildrenFrom(source, 0, ...) has returned on an object that had one
\* child, with a source of two entries that is another object: the two are
\* the first and the second of the three entries of the object, and its
\* children.
C36_Witness ==
    /\ call.op = "MoveChildrenFrom" /\ call.idx = 0 /\ fault = "none"
    /\ call.self # call.arg
    /\ Len(children[call.arg]) = 2 /\ Len(children[call.self]) = 3
    /\ SubSeq(children[call.self], 1, 2) = children[call.arg]
    /\ \A i \in 1..2 : parent[children[call.arg][i]] = call.self
    /\ parent[children[call.self][3]] = call.self

\* C37 as stated: a call of MoveChildrenFrom ends, and one whose source is
\* the target itself, or whose source is of another class than the target
\* while allowTypeChange is not set, moves no child: it is fatal, or every
\* child sequence and every parent is as before.
C37_MoveChildrenFromEnforces ==
    [][(Called /\ call'.op = "MoveChildrenFrom") =>
          /\ fault' # "no_termination"
          /\ (\/ call'.self = call'.arg
              \/ /\ call'.arg2 = 0
                 /\ GetClassName(call'.self) # GetClassName(call'.arg)) =>
                (fault' # "none" \/ (children' = children /\ parent' = parent))]_vars

\* C38 as stated: MoveItselfTo(target) that returns on an object whose parent
\* is another object than target either makes the object the last child of
\* target, with target as its parent and no other object that has it as a
\* child, or leaves it a child of its former parent, every child sequence as
\* before.
C38_MovedOrStays ==
    [][(/\ Called /\ fault' = "none" /\ call'.op = "MoveItselfTo"
        /\ parent[call'.self] # NULL /\ parent[call'.self] # call'.arg) =>
          LET self == call'.self
              target == call'.arg
          IN  \/ /\ children'[target] = Append(children[target], self)
                 /\ parent'[self] = target
                 /\ \A p \in alive' \ {target} :
                       ~(parent'[self] = p /\ self \in Listed(children'[p]))
              \/ /\ parent'[self] = parent[self]
                 /\ children' = children]_vars

\* C39 as stated: HasDescendant(child, deepness) is true exactly when child is
\* below the object, at most deepness + 1 levels down (any number of levels
\* with the unlimited depth), wherever child is among its siblings.
C39_HasDescendantIffWithinDepth ==
    (call.op = "HasDescendant" /\ fault = "none") =>
        (call.status = "true" <=>
            \E k \in 1..(IF call.idx < 0 THEN NumNodes ELSE call.idx + 1) :
                Up(parent, call.arg, k) = call.self)

\* The objects in the order in which a forward traversal from the root, with
\* unlimited depth and the visibility filter off, enters them.
PreOrder ==
    LET f == [NewFunctor("MutableFunctor", FORWARD, FALSE, Always("CONTINUE"),
                         Always("CONTINUE")) EXCEPT !.visibleOnly = FALSE]
        root == CHOOSE n \in Nodes : parent[n] = NULL
        t == Process([code |-> "CONTINUE", log |-> <<>>, score |-> currentScore], f, root,
                     UNLIMITED_DEPTH, FALSE)
    IN  [i \in 1..Len(t.log) |-> t.log[i].node]

\* C40: IsPreOrdered(left, right) on two different objects of a tree is true
\* exactly when the forward traversal from the root enters left before right,
\* and then IsPreOrdered(right, left) is false; on one and the same object it
\* is false.
C40_IsPreOrderedIsTraversalOrder ==
    (call.op = "IsPreOrdered" /\ fault = "none") =>
        LET order == PreOrder
            left == call.self
            right == call.arg
        IN  /\ call.status \in {"true", "false"}
            /\ Once(order, left) /\ Once(order, right)
            /\ left = right => call.status = "false"
            /\ left # right =>
                  /\ call.status = "true" <=> Precedes(order, left, right)
                  /\ IsPreOrdered(Cur, right, left).status # call.status
                  /\ ~IsPreOrdered(Cur, right, left).ub

\* IsPreOrdered has answered true on two children of the same object, none
\* above the other: the one asked first is the one listed first.
C40_Witness ==
    /\ call.op = "IsPreOrdered" /\ fault = "none" /\ call.status = "true"
    /\ parent[call.self] # NULL /\ parent[call.self] = parent[call.arg]
    /\ children[parent[call.self]] = <<call.self, call.arg>>
    /\ call.self > call.arg

====
